---- MODULE Spec2Model ----
(***************************************************************************)
(* Verification model of the stock-predictor core:                         *)
(*   - DataCache and StockDataAggregator (data-sources/aggregator),        *)
(*   - ModelLoader and StockPredictor.predict (ml/model-loader, predictor),*)
(*   - the sequence / tabular window construction (ml/preprocessing).      *)
(* Time is the value of Date.now() in milliseconds, counted from the       *)
(* moment the process started.                                             *)
(***************************************************************************)
EXTENDS Integers, Sequences, FiniteSets, TLC

VARIABLES
  now,       \* Date.now()
  cache,     \* DataCache.cache : Map<string, CacheEntry>
  timers,    \* pending setTimeout callbacks registered by DataCache.set
  lastSet,   \* history: per key, the latest set(key, data, ttl) that was executed
  writes,    \* history: number of set() executed so far (identifies a write)
  ticks,     \* number of clock advances so far
  got,       \* history: the latest direct DataCache.get and what it returned
  agg,       \* per caller: the aggregator call it is executing / has last executed
  calls,     \* number of aggregator calls started so far
  modelCache,       \* ModelLoader.modelCache : Map<string, LoadedModel>
  loadingPromises,  \* ModelLoader.loadingPromises : Map<string, Promise<LoadedModel>>
  loads,     \* the loadModelsInternal promises created so far, in order
  disposed,  \* the sequence models on which dispose() was called
  pred,      \* per caller: its loadModels / predict call
  lcalls,    \* number of loadModels / predict calls started so far
  clears,    \* the arguments of the clearCache calls so far, in order
  client,    \* the source-client call being executed / last executed
  req,       \* the GET /api/stocks/[symbol] request being served / last served
  fn,        \* the library function last evaluated, with its arguments and result
  store      \* useStockStore: watchlist and recentSearches, and the call last made

cacheVars == <<now, cache, timers, lastSet, writes, ticks, got>>
aggVars == <<agg, calls>>
loaderVars == <<modelCache, loadingPromises, loads, disposed, pred, lcalls, clears>>
coreVars == <<client, req, fn, store>>
vars == <<now, cache, timers, lastSet, writes, ticks, got, agg, calls,
          modelCache, loadingPromises, loads, disposed, pred, lcalls, clears,
          client, req, fn, store>>

(***************************************************************************)
(* Bounds of the model.                                                    *)
(***************************************************************************)
MaxTicks == 2
MaxCalls == 2
MaxWrites == 2
MaxLoaderCalls == 3
MaxClears == 1
MaxPredictCalls == 2
MaxBars == 212
MaxSeqLen == 7
\* ms by which the event loop may run a timer callback after its due time
MaxLag == 1
MaxClientCalls == 2
MaxRsiBars == 30
MaxShortLen == 5
MaxRequests == 2
MaxStoreCalls == 3
\* pairs of bars by which a price history exceeds the 100 bars the route asks for
MaxExtraPairs == 5

Callers == {"c1", "c2"}
Symbols == {"AAPL"}
Queries == {"AAPL", "aapl"}
\* the ranges the aggregator is driven with: one per TTL class
AggPeriods == {"1d", "5d", "1y"}
\* clock advances, in ms
AggDeltas == {1, 60000}
CacheDeltas == {1, 1000, 60000}
\* the ttl arguments the direct cache driver passes to set (0: argument omitted)
CacheTTLs == {0, 1000, 60000, 300000}

(***************************************************************************)
(* Values.  Every value a cache slot or a client result can hold is a      *)
(* record with a kind, so that null and data are comparable.               *)
(***************************************************************************)
Null == [kind |-> "null"]
Quote(src, s) == [kind |-> "quote", source |-> src, symbol |-> s]
Bars(items) == [kind |-> "bars", items |-> items]
Results(items) == [kind |-> "results", items |-> items]
\* a bar of the given provider whose date lies ageDays whole days before now
Bar(src, age) == [source |-> src, ageDays |-> age]

\* JavaScript truthiness of a cached value: objects and arrays are truthy
Truthy(v) == v # Null

RECURSIVE SelectBars(_, _)
SelectBars(s, maxAge) ==
  IF s = <<>> THEN <<>>
  ELSE IF Head(s).ageDays <= maxAge
       THEN <<Head(s)>> \o SelectBars(Tail(s), maxAge)
       ELSE SelectBars(Tail(s), maxAge)

(***************************************************************************)
(* DataCache                                                               *)
(***************************************************************************)
defaultTTL == 60000

MapDelete(c, k) == [x \in DOMAIN c \ {k} |-> c[x]]
MapSet(c, k, e) == [x \in DOMAIN c \cup {k} |-> IF x = k THEN e ELSE c[x]]

\* the age test of DataCache.get
Expired(entry, t) == t - entry.timestamp > defaultTTL

\* DataCache.get: the value returned
get(c, k, t) ==
  IF k \notin DOMAIN c THEN Null
  ELSE IF Expired(c[k], t) THEN Null
  ELSE c[k].data

\* DataCache.get: the map afterwards (an entry found too old is deleted)
getStore(c, k, t) ==
  IF k \in DOMAIN c /\ Expired(c[k], t) THEN MapDelete(c, k) ELSE c

\* DataCache.set: the map afterwards
set(c, k, data, t) == MapSet(c, k, [data |-> data, timestamp |-> t])

\* DataCache.set: the timers afterwards; ttl = 0 stands for an omitted (or zero)
\* ttl argument, for which `if (ttl)` registers nothing
setTimers(tm, k, ttl, t, w) ==
  IF ttl # 0 THEN tm \cup {[key |-> k, due |-> t + ttl, write |-> w]} ELSE tm

\* history of set: which write is the latest for k, when, and with which ttl
\* (the default when none was given)
noteSet(ls, k, data, ttl, t, w) ==
  MapSet(ls, k, [write |-> w, at |-> t, data |-> data,
                 ttl |-> IF ttl # 0 THEN ttl ELSE defaultTTL])

\* the whole of cache.set(key, data, ttl) on the state
DoSet(k, data, ttl) ==
  /\ cache' = set(cache, k, data, now)
  /\ timers' = setTimers(timers, k, ttl, now, writes + 1)
  /\ lastSet' = noteSet(lastSet, k, data, ttl, now, writes + 1)
  /\ writes' = writes + 1

\* the callback () => this.cache.delete(key) of a timer that is due; Node runs
\* it at or after its due time, when the event loop gets to it (at most MaxLag
\* ms late here), so code that runs at the due time may still precede it
TimerFire(tm) ==
  /\ tm \in timers
  /\ now >= tm.due
  /\ timers' = timers \ {tm}
  /\ cache' = MapDelete(cache, tm.key)
  /\ UNCHANGED <<now, lastSet, writes, ticks, got, agg, calls, loaderVars, coreVars>>

Tick(d) ==
  /\ ticks < MaxTicks
  /\ \A tm \in timers : now + d <= tm.due + MaxLag
  /\ now' = now + d
  /\ ticks' = ticks + 1
  /\ UNCHANGED <<cache, timers, lastSet, writes, got, agg, calls, loaderVars, coreVars>>

CacheInit ==
  /\ now = 0
  /\ cache = <<>>
  /\ timers = {}
  /\ lastSet = <<>>
  /\ writes = 0
  /\ ticks = 0
  /\ got = [key |-> <<>>, data |-> Null, stale |-> FALSE, fresh |-> FALSE,
            age |-> 0, kept |-> FALSE, n |-> 0]

(***************************************************************************)
(* Direct use of a DataCache: set, get, timers, clock.                     *)
(***************************************************************************)
CacheKeys == {<<"quote", "AAPL">>}
CacheData == {Quote("yahoo", "AAPL")}

CacheSetOp(k, v, ttl) ==
  /\ writes < MaxWrites
  /\ DoSet(k, v, ttl)
  /\ UNCHANGED <<now, ticks, got, agg, calls, loaderVars, coreVars>>

\* get(key); records whether the entry's own TTL had elapsed (stale) or not
\* (fresh) when it was issued, what it returned and whether the key is still
\* in the map afterwards
CacheGetOp(k) ==
  /\ cache' = getStore(cache, k, now)
  /\ got' = [key |-> k,
             data |-> get(cache, k, now),
             stale |-> k \in DOMAIN cache /\ now - lastSet[k].at > lastSet[k].ttl,
             fresh |-> k \in DOMAIN cache /\ now - lastSet[k].at <= lastSet[k].ttl,
             age |-> IF k \in DOMAIN lastSet THEN now - lastSet[k].at ELSE 0,
             kept |-> k \in DOMAIN getStore(cache, k, now),
             n |-> IF got.n < 2 THEN got.n + 1 ELSE got.n]
  /\ UNCHANGED <<now, timers, lastSet, writes, ticks, agg, calls, loaderVars, coreVars>>

AggIdle == [c \in Callers |->
  [pc |-> "idle", op |-> "none", key |-> <<>>, period |-> "1y",
   called |-> <<>>, resp |-> <<>>, ret |-> Null, hit |-> FALSE, fresh |-> FALSE,
   within |-> FALSE, prev |-> Null]]

AggInit == agg = AggIdle /\ calls = 0


(***************************************************************************)
(* StockDataAggregator.  A call runs up to its first await in one step;    *)
(* every await of a source client is a suspension point at which other     *)
(* calls, timers and the clock may move.                                   *)
(***************************************************************************)
toLowerCase(q) == IF q = "AAPL" THEN "aapl" ELSE IF q = "MSFT" THEN "msft" ELSE q

quoteKey(s) == <<"quote", s>>
historicalKey(s, p) == <<"historical", s, p>>
searchKey(q) == <<"search", toLowerCase(q)>>

\* the range -> day-count table of getHistoricalData
periodDays(p) ==
  CASE p = "1d" -> 1 [] p = "5d" -> 5 [] p = "1mo" -> 30 [] p = "3mo" -> 90
    [] p = "6mo" -> 180 [] p = "1y" -> 365 [] p = "2y" -> 730 [] p = "5y" -> 1825

\* const cacheTTL = period === '1d' ? 60000 : period === '5d' ? 120000 : 300000
cacheTTL(p) == IF p = "1d" THEN 60000 ELSE IF p = "5d" THEN 120000 ELSE 300000

searchTTL == 600000

\* (mutant: the secondary client is asked for every range)
NeedsFallbackAnyPeriod(items, p) == items = <<>>

\* if (data.length === 0 && period !== '1d' && period !== '5d')
NeedsFallback(items, p) == items = <<>> /\ p # "1d" /\ p # "5d"

\* what the clients can answer
YahooQuotes(s) == {Null, Quote("yahoo", s)}
AlphaQuotes(s) == {Null, Quote("alphavantage", s)}
YahooHistory == {<<>>, <<Bar("yahoo", 1)>>, <<Bar("yahoo", 1), Bar("yahoo", 400)>>}
AlphaHistory == {<<>>, <<Bar("alphavantage", 1)>>, <<Bar("alphavantage", 400)>>,
                 <<Bar("alphavantage", 1), Bar("alphavantage", 400)>>}
YahooSearch == {<<>>, <<"AAPL">>}

\* history: the entry of k is in the map and its own TTL has not elapsed
Fresh(k) == k \in DOMAIN cache /\ now - lastSet[k].at <= lastSet[k].ttl
\* history: k was written and the TTL of its latest write is still running
Within(k) == k \in DOMAIN lastSet /\ now - lastSet[k].at < lastSet[k].ttl

\* the part of every aggregator method up to `if (cached) return cached`,
\* followed, on a miss, by the call of the first client
Begin(c, op, k, p) ==
  /\ agg[c].pc = "idle"
  /\ calls < MaxCalls
  /\ calls' = calls + 1
  /\ cache' = getStore(cache, k, now)
  /\ LET cached == get(cache, k, now) IN
       agg' = [agg EXCEPT ![c] =
         [pc |-> IF Truthy(cached) THEN "idle" ELSE op,
          op |-> op, key |-> k, period |-> p,
          called |-> IF Truthy(cached) THEN <<>> ELSE <<"yahoo">>,
          resp |-> <<>>,
          ret |-> cached,
          hit |-> Truthy(cached),
          fresh |-> Fresh(k),
          within |-> Within(k),
          prev |-> IF k \in DOMAIN lastSet THEN lastSet[k].data ELSE Null]]
  /\ UNCHANGED <<now, timers, lastSet, writes, ticks, got, loaderVars, coreVars>>

\* (mutant: the result is stored whatever it is)
FinishAlwaysStores(c, r, nonEmpty, ttl, rsp) ==
  /\ agg' = [agg EXCEPT ![c].pc = "idle", ![c].ret = r,
                        ![c].resp = agg[c].resp \o <<rsp>>]
  /\ DoSet(agg[c].key, r, ttl)
  /\ UNCHANGED <<now, ticks, got, calls, loaderVars, coreVars>>

\* the end of a method: if the result is non-empty store it, then return it
Finish(c, r, nonEmpty, ttl, rsp) ==
  /\ agg' = [agg EXCEPT ![c].pc = "idle", ![c].ret = r,
                        ![c].resp = agg[c].resp \o <<rsp>>]
  /\ IF nonEmpty
     THEN DoSet(agg[c].key, r, ttl)
     ELSE UNCHANGED <<cache, timers, lastSet, writes>>
  /\ UNCHANGED <<now, ticks, got, calls, loaderVars, coreVars>>

\* the suspension at the call of the secondary client
CallAlpha(c, pcNext, rsp) ==
  /\ agg' = [agg EXCEPT ![c].pc = pcNext,
                        ![c].called = agg[c].called \o <<"alphavantage">>,
                        ![c].resp = agg[c].resp \o <<rsp>>]
  /\ UNCHANGED <<now, cache, timers, lastSet, writes, ticks, got, calls, loaderVars, coreVars>>

GetQuoteStart(c, s) ==
  /\ s \in Symbols
  /\ Begin(c, "quote", quoteKey(s), "1y")

\* (mutant: the secondary client is asked whatever the primary answered)
GetQuoteYahooAlwaysAlpha(c, s, q) ==
  /\ agg[c].pc = "quote"
  /\ agg[c].key = quoteKey(s)
  /\ CallAlpha(c, "quoteAlpha", q)

\* yahooFinance.getQuote(symbol) has resolved with q
GetQuoteYahoo(c, s, q) ==
  /\ agg[c].pc = "quote"
  /\ agg[c].key = quoteKey(s)
  /\ IF ~Truthy(q)
     THEN CallAlpha(c, "quoteAlpha", q)
     ELSE Finish(c, q, TRUE, 0, q)

\* alphaVantage.getQuote(symbol) has resolved with q
GetQuoteAlpha(c, s, q) ==
  /\ agg[c].pc = "quoteAlpha"
  /\ agg[c].key = quoteKey(s)
  /\ Finish(c, q, Truthy(q), 0, q)

GetHistoricalDataStart(c, s, p) ==
  /\ s \in Symbols
  /\ Begin(c, "historical", historicalKey(s, p), p)

\* yahooFinance.getHistoricalData(symbol, period) has resolved with items
GetHistoricalDataYahoo(c, items) ==
  /\ agg[c].pc = "historical"
  /\ IF NeedsFallback(items, agg[c].period)
     THEN CallAlpha(c, "historicalAlpha", Bars(items))
     ELSE Finish(c, Bars(items), Len(items) > 0, cacheTTL(agg[c].period), Bars(items))

\* alphaVantage.getHistoricalData(symbol, outputSize) has resolved with items;
\* they are filtered to the period and the method ends
GetHistoricalDataAlpha(c, items) ==
  /\ agg[c].pc = "historicalAlpha"
  /\ LET data == SelectBars(items, periodDays(agg[c].period)) IN
       Finish(c, Bars(data), Len(data) > 0, cacheTTL(agg[c].period), Bars(items))

\* if (!query || query.length < 1) return [] : the driver passes non-empty queries
SearchStocksStart(c, q) ==
  /\ q \in Queries
  /\ Begin(c, "search", searchKey(q), "1y")

\* yahooFinance.searchStocks(query) has resolved with items
SearchStocksYahoo(c, items) ==
  /\ agg[c].pc = "search"
  /\ Finish(c, Results(items), Len(items) > 0, searchTTL, Results(items))


(***************************************************************************)
(* ModelLoader.  The map key is the upper-cased symbol.  A load is the     *)
(* promise returned by loadModelsInternal; it is identified by its place   *)
(* in `loads`, and so is the LoadedModel object it resolves with.          *)
(***************************************************************************)
LoaderSymbols == {"AAPL", "aapl", "MSFT"}
toUpperCase(s) ==
  CASE s \in {"aapl", "Aapl"} -> "AAPL"
    [] s = "msft" -> "MSFT"
    [] s = "orcl" -> "ORCL"
    [] s = "amd" -> "AMD"
    [] OTHER -> s

\* the objects the four artifact fetches of load l can produce
ModelObj(l) == [kind |-> "LayersModel", id |-> l]
Scaler == [kind |-> "ScalerParams"]
Ensemble == [kind |-> "EnsembleConfig"]
ModelConfig(n) == [kind |-> "ModelConfig", sequenceLength |-> n]

\* results of Promise.allSettled: one settlement per artifact
Rejected == [status |-> "rejected"]
Fulfilled(v) == [status |-> "fulfilled", value |-> v]

\* the sequence length found in preprocessing_config.json (60 is used without one)
ConfigSeqLens == {3}

Settlements(l) ==
  [lstmModel : {Rejected, Fulfilled(ModelObj(l))},
   scalerParams : {Rejected, Fulfilled(Scaler)},
   ensembleConfig : {Rejected, Fulfilled(Ensemble)},
   modelConfig : {Rejected} \cup {Fulfilled(ModelConfig(n)) : n \in ConfigSeqLens}]

\* the settlements in which at most one of the four fetches failed
Failed(st) == {a \in {"lstmModel", "scalerParams", "ensembleConfig", "modelConfig"} :
                 st[a] = Rejected}
SingleFailures(l) == {st \in Settlements(l) : Cardinality(Failed(st)) <= 1}
ModelFailures(l) == {st \in Settlements(l) : Failed(st) \subseteq {"lstmModel"}}

\* if (x.status === 'fulfilled') result.x = x.value (else the slot stays null)
Slot(x) == IF x.status = "fulfilled" THEN x.value ELSE Null

\* (mutant: Promise.all instead of Promise.allSettled, one failure rejects the load)
loadModelsInternalFailFast(l, st) ==
  IF Failed(st) # {} THEN [state |-> "rejected", value |-> Null]
  ELSE [state |-> "fulfilled",
        value |-> [id |-> l,
                   lstmModel |-> Slot(st.lstmModel),
                   scalerParams |-> Slot(st.scalerParams),
                   ensembleConfig |-> Slot(st.ensembleConfig),
                   modelConfig |-> Slot(st.modelConfig)]]

\* loadModelsInternal: how its promise settles, given the four settlements
loadModelsInternal(l, st) ==
  [state |-> "fulfilled",
   value |-> [id |-> l,
              lstmModel |-> Slot(st.lstmModel),
              scalerParams |-> Slot(st.scalerParams),
              ensembleConfig |-> Slot(st.ensembleConfig),
              modelConfig |-> Slot(st.modelConfig)]]

\* (mutant: the in-flight map is not consulted)
ServedWithoutInFlight(key) ==
  IF key \in DOMAIN modelCache THEN "cached" ELSE "started"

\* (mutant: a cached result without model or scaler is not served)
ServedOnlyWhenUsable(key) ==
  IF /\ key \in DOMAIN modelCache
     /\ modelCache[key].lstmModel # Null
     /\ modelCache[key].scalerParams # Null
  THEN "cached"
  ELSE IF key \in DOMAIN loadingPromises THEN "shared"
  ELSE "started"

\* loadModels, up to its first await: which of its three branches is taken
Served(key) ==
  IF key \in DOMAIN modelCache THEN "cached"
  ELSE IF key \in DOMAIN loadingPromises THEN "shared"
  ELSE "started"

PredIdle == [c \in Callers |->
  [pc |-> "idle", kind |-> "none", key |-> "AAPL", bars |-> 0, how |-> "none",
   joined |-> 0, models |-> Null, result |-> Null, done |-> FALSE,
   ranDisposed |-> FALSE]]

LoaderInit ==
  /\ modelCache = <<>>
  /\ loadingPromises = <<>>
  /\ loads = <<>>
  /\ disposed = {}
  /\ pred = PredIdle
  /\ lcalls = 0
  /\ clears = <<>>

otherVars == <<now, cache, timers, lastSet, writes, ticks, got, agg, calls,
               client, req, fn, store>>

\* loadModels(symbol) called by c (kind "load": called directly; kind
\* "predict": called at the start of predict, with n bars of history)
LoadModelsCall(c, sym, kind, n) ==
  LET key == toUpperCase(sym)
      how == Served(key)
      l == Len(loads) + 1
      call == [pc |-> "idle", kind |-> kind, key |-> key, bars |-> n, how |-> how,
               joined |-> 0, models |-> Null, result |-> Null, done |-> FALSE,
               ranDisposed |-> FALSE]
  IN
  /\ pred[c].pc = "idle"
  /\ lcalls < MaxLoaderCalls
  /\ lcalls' = lcalls + 1
  /\ CASE how = "cached" ->
            /\ pred' = [pred EXCEPT ![c] =
                 [call EXCEPT !.models = modelCache[key],
                              !.pc = IF kind = "predict" THEN "models" ELSE "idle",
                              !.done = (kind = "load")]]
            /\ UNCHANGED <<loads, loadingPromises>>
       [] how = "shared" ->
            /\ pred' = [pred EXCEPT ![c] =
                 [call EXCEPT !.joined = loadingPromises[key], !.pc = "shared"]]
            /\ UNCHANGED <<loads, loadingPromises>>
       [] how = "started" ->
            /\ loads' = Append(loads, [key |-> key, path |-> toLowerCase(sym),
                                       state |-> "pending", value |-> Null,
                                       settled |-> Null, resumed |-> FALSE,
                                       overtaken |-> FALSE])
            /\ loadingPromises' = MapSet(loadingPromises, key, l)
            /\ pred' = [pred EXCEPT ![c] = [call EXCEPT !.joined = l, !.pc = "owner"]]
  /\ UNCHANGED <<modelCache, disposed, clears, otherVars>>

LoadModels(c, sym) ==
  /\ sym \in LoaderSymbols
  /\ LoadModelsCall(c, sym, "load", 0)

\* the promise of load l settles: the four fetches have settled as st
LoadSettle(l, st) ==
  /\ l \in 1..Len(loads)
  /\ loads[l].state = "pending"
  /\ loads' = [loads EXCEPT ![l] =
       [@ EXCEPT !.state = loadModelsInternal(l, st).state,
                 !.value = loadModelsInternal(l, st).value,
                 !.settled = st]]
  /\ UNCHANGED <<modelCache, loadingPromises, disposed, pred, lcalls, clears, otherVars>>

\* what the caller goes on with once loadModels has returned m to it
Returned(rec, m) ==
  [rec EXCEPT !.models = m,
              !.pc = IF rec.kind = "predict" THEN "models" ELSE "idle",
              !.done = (rec.kind = "load")]
\* ... and once loadModels has rejected
Thrown(rec) ==
  [rec EXCEPT !.pc = "idle", !.done = TRUE,
              !.result = [kind |-> "throws", error |-> "load rejected"]]

\* (mutant: the finally block does not delete the in-flight entry)
OwnerResumeKeepsInFlight(c) ==
  LET l == pred[c].joined IN
  /\ pred[c].pc = "owner"
  /\ loads[l].state # "pending"
  /\ loads' = [loads EXCEPT ![l].resumed = TRUE]
  /\ modelCache' = MapSet(modelCache, loads[l].key, loads[l].value)
  /\ pred' = [pred EXCEPT ![c] = Returned(pred[c], loads[l].value)]
  /\ UNCHANGED <<loadingPromises, disposed, lcalls, clears, otherVars>>

\* the caller that started the load resumes after `await loadPromise`:
\* modelCache.set, return (or rethrow), finally loadingPromises.delete
OwnerResume(c) ==
  LET l == pred[c].joined IN
  /\ pred[c].pc = "owner"
  /\ loads[l].state # "pending"
  /\ loads' = [loads EXCEPT ![l].resumed = TRUE]
  /\ loadingPromises' = MapDelete(loadingPromises, loads[l].key)
  /\ IF loads[l].state = "fulfilled"
     THEN /\ modelCache' = MapSet(modelCache, loads[l].key, loads[l].value)
          /\ pred' = [pred EXCEPT ![c] = Returned(pred[c], loads[l].value)]
     ELSE /\ pred' = [pred EXCEPT ![c] = Thrown(pred[c])]
          /\ UNCHANGED modelCache
  /\ UNCHANGED <<disposed, lcalls, clears, otherVars>>

\* a caller that was handed the pending promise resumes: the promise it
\* returned adopts the load's promise, which takes effect after the
\* continuation of the caller that awaited that promise first
SharedResume(c) ==
  LET l == pred[c].joined IN
  /\ pred[c].pc = "shared"
  /\ loads[l].resumed
  /\ pred' = [pred EXCEPT ![c] =
       IF loads[l].state = "fulfilled" THEN Returned(pred[c], loads[l].value)
       ELSE Thrown(pred[c])]
  /\ UNCHANGED <<modelCache, loadingPromises, loads, disposed, lcalls, clears, otherVars>>

\* (mutant: the entry is dropped without disposing its model)
DisposalForgotten(model) == {}

\* if (model?.lstmModel) model.lstmModel.dispose()
Disposal(model) == IF model.lstmModel # Null THEN {model.lstmModel} ELSE {}

\* history: the loads of the given keys that are in flight (their starting
\* call has not gone on yet) are marked as overtaken by an eviction
Overtake(keys) ==
  [l \in 1..Len(loads) |->
     IF loads[l].key \in keys /\ ~loads[l].resumed
     THEN [loads[l] EXCEPT !.overtaken = TRUE]
     ELSE loads[l]]

\* clearCache(symbol)
ClearCache(sym) ==
  LET key == toUpperCase(sym) IN
  /\ Len(clears) < MaxClears
  /\ clears' = Append(clears, sym)
  /\ disposed' = disposed \cup
       (IF key \in DOMAIN modelCache THEN Disposal(modelCache[key]) ELSE {})
  /\ modelCache' = MapDelete(modelCache, key)
  /\ loads' = Overtake({key})
  /\ UNCHANGED <<loadingPromises, pred, lcalls, otherVars>>

\* clearCache(): recorded in clears as "*"
ClearCacheAll ==
  /\ Len(clears) < MaxClears
  /\ clears' = Append(clears, "*")
  /\ disposed' = disposed \cup UNION {Disposal(modelCache[k]) : k \in DOMAIN modelCache}
  /\ modelCache' = <<>>
  /\ loads' = Overtake({loads[l].key : l \in 1..Len(loads)})
  /\ UNCHANGED <<loadingPromises, pred, lcalls, otherVars>>

(***************************************************************************)
(* Preprocessing.  Only the shape of the data is modelled: a feature row   *)
(* is named by the 1-based index of the bar it was computed for, and       *)
(* scaling keeps rows in place.                                            *)
(***************************************************************************)
ValidStart == 200
DefaultSequenceLength == 60
Lookback == 5

Max(a, b) == IF a >= b THEN a ELSE b

\* prepareFeatures: one row per bar
prepareFeatures(n) == [i \in 1..n |-> i]

\* Array.prototype.slice(start)
sliceFrom(rows, start) == SubSeq(rows, start + 1, Len(rows))

\* scaleFeatures: features.map(row => row.map(...))
scaleFeatures(rows) == [i \in 1..Len(rows) |-> rows[i]]

\* for (i = sequenceLength; i <= data.length; i++) push(data.slice(i - sequenceLength, i))
createSequences(data, sequenceLength) ==
  [j \in 1..Max(0, Len(data) - sequenceLength + 1) |-> SubSeq(data, j, j + sequenceLength - 1)]

\* for (i = lookback; i < data.length; i++) push(rows i-lookback .. i-1, concatenated)
flattenForXgboost(data, lookback) ==
  [j \in 1..Max(0, Len(data) - lookback) |-> SubSeq(data, j, j + lookback - 1)]

processDataForPrediction(n, sequenceLength) ==
  LET raw == prepareFeatures(n)
      validStartIndex == Max(ValidStart, sequenceLength)
      validRaw == sliceFrom(raw, validStartIndex)
      scaled == scaleFeatures(validRaw)
  IN [raw |-> validRaw,
      scaled |-> scaled,
      sequences |-> createSequences(scaled, sequenceLength),
      flattenedForXgb |-> flattenForXgboost(scaled, Lookback)]

\* a[a.length - 1]: undefined when the array is empty
LastOf(a) ==
  IF Len(a) = 0 THEN [defined |-> FALSE] ELSE [defined |-> TRUE, value |-> a[Len(a)]]

(***************************************************************************)
(* StockPredictor.predict                                                  *)
(***************************************************************************)
\* (mutant: only the sequence model is required)
ModelsAvailableModelOnly(models) == models.lstmModel # Null

\* if (!models.lstmModel || !models.scalerParams) return null
ModelsAvailable(models) == models.lstmModel # Null /\ models.scalerParams # Null

\* models.modelConfig?.sequenceLength || 60
SequenceLengthOf(models) ==
  IF models.modelConfig # Null /\ models.modelConfig.sequenceLength # 0
  THEN models.modelConfig.sequenceLength
  ELSE DefaultSequenceLength

\* models.ensembleConfig || { lstm_weight: 0.6, ... }
DefaultEnsemble == [kind |-> "EnsembleDefaults"]
EnsembleOf(models) ==
  IF models.ensembleConfig # Null THEN models.ensembleConfig ELSE DefaultEnsemble

\* predictXGBoostFallback(features, ...): features.length is read first, which
\* throws a TypeError when features is undefined
predictXGBoostFallback(features) ==
  IF features.defined THEN [kind |-> "number"]
  ELSE [kind |-> "throws", error |-> "TypeError"]

\* predict resumes with the models loadModels gave it: the two guards, the
\* data processing and, in predictLSTM, model.predict(inputTensor); it then
\* awaits prediction.data()
PredictModels(c) ==
  LET m == pred[c].models
      processed == processDataForPrediction(pred[c].bars, SequenceLengthOf(m))
  IN
  /\ pred[c].pc = "models"
  /\ IF ~ModelsAvailable(m)
     THEN pred' = [pred EXCEPT ![c].pc = "idle", ![c].done = TRUE, ![c].result = Null]
     ELSE IF Len(processed.sequences) = 0
     THEN pred' = [pred EXCEPT ![c].pc = "idle", ![c].done = TRUE, ![c].result = Null]
     ELSE pred' = [pred EXCEPT ![c].pc = "lstm",
                               ![c].ranDisposed = (m.lstmModel \in disposed)]
  /\ UNCHANGED <<modelCache, loadingPromises, loads, disposed, lcalls, clears, otherVars>>

\* predict resumes with the output of the sequence model: the tabular
\* estimate, the ensemble and the PredictionResult
PredictFinish(c) ==
  LET m == pred[c].models
      processed == processDataForPrediction(pred[c].bars, SequenceLengthOf(m))
      latestSequence == processed.sequences[Len(processed.sequences)]
      xgb == predictXGBoostFallback(LastOf(processed.flattenedForXgb))
  IN
  /\ pred[c].pc = "lstm"
  /\ pred' = [pred EXCEPT ![c].pc = "idle", ![c].done = TRUE,
       ![c].result =
          IF xgb.kind = "throws" THEN xgb
          ELSE [kind |-> "prediction",
                symbol |-> pred[c].key,
                ensemble |-> EnsembleOf(m),
                sequenceEnd |-> latestSequence[Len(latestSequence)],
                tabular |-> LastOf(processed.flattenedForXgb).value]]
  /\ UNCHANGED <<modelCache, loadingPromises, loads, disposed, lcalls, clears, otherVars>>

\* the history length predict is called with in the loader model
LoaderBars == {261}
\* the symbols predict is called with in the loader model
PredictSymbols == {"AAPL", "aapl"}

Predict(c, sym, n) ==
  /\ sym \in LoaderSymbols
  /\ lcalls < MaxPredictCalls
  /\ LoadModelsCall(c, sym, "predict", n)

(***************************************************************************)
(* Source clients, request handler and library functions: initial state.   *)
(***************************************************************************)
ClientIdle == [pc |-> "idle", client |-> "none", method |-> "none", symbol |-> "",
               out |-> Null, threw |-> "none", n |-> 0]
ReqIdle == [pc |-> "idle", n |-> 0, rawSymbol |-> "", rawPeriod |-> [present |-> FALSE],
            indicators |-> FALSE, symbol |-> "", period |-> "", events |-> <<>>,
            quoteState |-> "none", histState |-> "none", quote |-> Null, hist |-> <<>>,
            response |-> Null]
FnIdle == [name |-> "none"]
StoreIdle == [name |-> "none"]
\* create(): watchlist: [], recentSearches: []
StoreNew == [watchlist |-> <<>>, recentSearches |-> <<>>, n |-> 0, last |-> StoreIdle]
CoreInit == client = ClientIdle /\ req = ReqIdle /\ fn = FnIdle /\ store = StoreNew

(***************************************************************************)
(* Source clients (YahooFinanceService, AlphaVantageService).  A call is   *)
(* suspended at `await fetch(...)` and at `await response.json()`; the     *)
(* whole body of each method is inside one try / catch.                    *)
(***************************************************************************)
ClientNames == {"yahoo", "alphavantage"}
ClientMethods == {"getQuote", "getHistoricalData"}
ClientSymbols == {"AAPL", "ZZZZ"}

\* how `await fetch(...)` can end: a rejection, or a response with a status
FetchOutcomes == {"networkError", "status404", "status429", "status500", "ok"}

Throw(e) == [kind |-> "throws", error |-> e]
\* a quote object some of whose numeric fields are undefined or NaN
PartialQuote(src, s) == [kind |-> "quote", source |-> src, symbol |-> s, fields |-> "NaN"]
\* a bar some of whose numeric fields are NaN
PartialBar(src, age) == [source |-> src, ageDays |-> age, fields |-> "NaN"]

\* what response.json() can resolve with
JsonNull == [kind |-> "json", shape |-> "null"]
Unparsable == [kind |-> "json", shape |-> "unparsable"]
YahooBodies ==
  {JsonNull, [kind |-> "chart", result |-> Null]} \cup
  {[kind |-> "chart", result |-> [meta |-> m, stamps |-> t, quote |-> q]] :
     m \in {"missing", "partial", "full"}, t \in {"missing", "two"},
     q \in {"missing", "nulls", "full"}}
AlphaQuoteBodies ==
  {JsonNull} \cup
  {[kind |-> "alpha", payload |-> x] : x \in {"note", "empty", "partial", "nan", "full"}}
AlphaHistoryBodies ==
  {JsonNull} \cup
  {[kind |-> "alpha", payload |-> x] : x \in {"note", "nullValues", "nan", "full"}}

ClientBodies(cl, m) ==
  IF cl = "yahoo" THEN YahooBodies
  ELSE IF m = "getQuote" THEN AlphaQuoteBodies ELSE AlphaHistoryBodies

\* YahooFinanceService.getQuote, after `const data = await response.json()`
yahooGetQuote(s, data) ==
  IF data = JsonNull THEN Throw("TypeError")               \* data.chart of null
  ELSE IF data.result = Null THEN Null                     \* if (!result) return null
  ELSE IF data.result.meta = "missing" THEN Throw("TypeError")   \* meta.symbol of undefined
  ELSE IF data.result.meta = "full" THEN Quote("yahoo", s)
  ELSE PartialQuote("yahoo", s)

\* YahooFinanceService.getHistoricalData, after `const data = await response.json()`
yahooGetHistoricalData(data) ==
  IF data = JsonNull THEN Throw("TypeError")
  ELSE IF data.result = Null THEN Bars(<<>>)               \* if (!result) return []
  ELSE IF data.result.stamps = "missing" THEN Bars(<<>>)   \* result.timestamp || []
  ELSE IF data.result.quote = "missing" THEN Bars(<<>>)    \* every row fails the != null test
  ELSE IF data.result.quote = "nulls" THEN Bars(<<Bar("yahoo", 1)>>)
  ELSE Bars(<<Bar("yahoo", 2), Bar("yahoo", 1)>>)

\* historicalData.sort((a, b) => a.date.getTime() - b.date.getTime())
RECURSIVE SortByDate(_)
SortByDate(s) ==
  IF s = <<>> THEN <<>>
  ELSE LET i == CHOOSE j \in 1..Len(s) :
                  \A k \in 1..Len(s) :
                    \/ s[j].ageDays > s[k].ageDays
                    \/ (s[j].ageDays = s[k].ageDays /\ j <= k)
           rest == [k \in 1..(Len(s) - 1) |-> IF k < i THEN s[k] ELSE s[k + 1]]
       IN <<s[i]>> \o SortByDate(rest)

\* AlphaVantageService.getQuote, after `const data = await response.json()`
alphaGetQuote(s, data) ==
  IF data = JsonNull THEN Throw("TypeError")               \* data['Global Quote'] of null
  ELSE IF data.payload \in {"note", "empty"} THEN Null
  ELSE IF data.payload = "partial" THEN Throw("TypeError") \* undefined.replace
  ELSE IF data.payload = "nan" THEN PartialQuote("alphavantage", s)
  ELSE Quote("alphavantage", s)

\* AlphaVantageService.getHistoricalData, after `const data = await response.json()`
alphaGetHistoricalData(data) ==
  IF data = JsonNull THEN Throw("TypeError")
  ELSE IF data.payload = "note" THEN Bars(<<>>)            \* if (!timeSeries) return []
  ELSE IF data.payload = "nullValues" THEN Throw("TypeError")   \* v['1. open'] of null
  ELSE IF data.payload = "nan"
       THEN Bars(SortByDate(<<PartialBar("alphavantage", 1), Bar("alphavantage", 2)>>))
  ELSE Bars(SortByDate(<<Bar("alphavantage", 1), Bar("alphavantage", 2)>>))

ClientBody(cl, m, s, data) ==
  IF cl = "yahoo"
  THEN IF m = "getQuote" THEN yahooGetQuote(s, data) ELSE yahooGetHistoricalData(data)
  ELSE IF m = "getQuote" THEN alphaGetQuote(s, data) ELSE alphaGetHistoricalData(data)

\* the value of the catch block: return null / return []
Sentinel(m) == IF m = "getQuote" THEN Null ELSE Bars(<<>>)

\* (mutant: the body is not wrapped in try / catch)
Uncaught(x, m) == x

\* try { ... } catch (error) { console.error(...); return <sentinel> }
Caught(x, m) == IF x.kind = "throws" THEN Sentinel(m) ELSE x

\* the call ends: what its promise settles with, and what was thrown inside
ClientSettle(x) ==
  client' = [client EXCEPT !.pc = "done",
                           !.out = Caught(x, client.method),
                           !.threw = IF x.kind = "throws" THEN x.error ELSE "none"]

\* a client method is called and reaches `await fetch(...)`
ClientStart(cl, m, s) ==
  /\ client.pc \in {"idle", "done"}
  /\ client.n < MaxClientCalls
  /\ client' = [pc |-> "fetch", client |-> cl, method |-> m, symbol |-> s,
                out |-> Null, threw |-> "none", n |-> client.n + 1]
  /\ UNCHANGED <<cacheVars, aggVars, loaderVars, req, fn, store>>

\* fetch has settled: rejected, or resolved with a response
ClientFetched(r) ==
  /\ client.pc = "fetch"
  /\ IF r = "ok" THEN client' = [client EXCEPT !.pc = "json"]
     ELSE ClientSettle(Throw(r))   \* rejection, or throw new Error(`... ${response.status}`)
  /\ UNCHANGED <<cacheVars, aggVars, loaderVars, req, fn, store>>

\* response.json() has settled: rejected, or resolved with a body
ClientParsed(data) ==
  /\ client.pc = "json"
  /\ data \in ClientBodies(client.client, client.method) \cup {Unparsable}
  /\ ClientSettle(IF data = Unparsable THEN Throw("SyntaxError")
                  ELSE ClientBody(client.client, client.method, client.symbol, data))
  /\ UNCHANGED <<cacheVars, aggVars, loaderVars, req, fn, store>>

(***************************************************************************)
(* JavaScript numbers.  A finite number is an exact fraction in lowest     *)
(* terms with a positive denominator; NaN and the two infinities are       *)
(* values of their own, and the operators below follow IEEE 754 on them    *)
(* (x/0, 0/0, Math.max and Math.min with NaN, comparisons with NaN).       *)
(* Rounding of finite results and the sign of zero are not represented.    *)
(***************************************************************************)
RECURSIVE GCD(_, _)
GCD(a, b) == IF b = 0 THEN a ELSE GCD(b, a % b)
Abs(x) == IF x < 0 THEN -x ELSE x

NaN == [k |-> "nan"]
Inf(s) == [k |-> "inf", s |-> s]
\* the fraction n/d, d # 0
Q(n, d) ==
  LET g == GCD(Abs(n), Abs(d))
      sgn == IF d < 0 THEN -1 ELSE 1
  IN [k |-> "num", n |-> (sgn * n) \div g, d |-> (sgn * d) \div g]
Num(n) == Q(n, 1)

IsNaN(a) == a.k = "nan"
IsInf(a) == a.k = "inf"
IsNum(a) == a.k = "num"
SignOf(a) == IF IsInf(a) THEN a.s ELSE IF a.n > 0 THEN 1 ELSE IF a.n < 0 THEN -1 ELSE 0

JNeg(a) ==
  IF IsNaN(a) THEN NaN ELSE IF IsInf(a) THEN Inf(-a.s) ELSE Q(-a.n, a.d)

JAdd(a, b) ==
  IF IsNaN(a) \/ IsNaN(b) THEN NaN
  ELSE IF IsInf(a) /\ IsInf(b) THEN (IF a.s = b.s THEN a ELSE NaN)
  ELSE IF IsInf(a) THEN a
  ELSE IF IsInf(b) THEN b
  ELSE LET g == GCD(a.d, b.d)
       IN Q(a.n * (b.d \div g) + b.n * (a.d \div g), (a.d \div g) * b.d)

JSub(a, b) == JAdd(a, JNeg(b))

JMul(a, b) ==
  IF IsNaN(a) \/ IsNaN(b) THEN NaN
  ELSE IF IsInf(a) \/ IsInf(b)
       THEN (IF SignOf(a) = 0 \/ SignOf(b) = 0 THEN NaN ELSE Inf(SignOf(a) * SignOf(b)))
  ELSE LET g == GCD(Abs(a.n), b.d)
           h == GCD(Abs(b.n), a.d)
       IN Q((a.n \div g) * (b.n \div h), (a.d \div h) * (b.d \div g))

JDiv(a, b) ==
  IF IsNaN(a) \/ IsNaN(b) THEN NaN
  ELSE IF IsInf(a) THEN (IF IsInf(b) THEN NaN
                         ELSE Inf(a.s * (IF SignOf(b) < 0 THEN -1 ELSE 1)))
  ELSE IF IsInf(b) THEN Num(0)
  ELSE IF b.n = 0 THEN (IF a.n = 0 THEN NaN ELSE Inf(SignOf(a)))
  ELSE JMul(a, Q(b.d, b.n))

\* a < b
JLt(a, b) ==
  IF IsNaN(a) \/ IsNaN(b) THEN FALSE
  ELSE IF IsInf(a) THEN a.s < 0 /\ ~(IsInf(b) /\ b.s < 0)
  ELSE IF IsInf(b) THEN b.s > 0
  ELSE a.n * b.d < b.n * a.d

JGt(a, b) == JLt(b, a)
JLe(a, b) == ~IsNaN(a) /\ ~IsNaN(b) /\ ~JLt(b, a)

\* Math.abs, Math.max, Math.min, Math.sign
MathAbs(a) == IF IsNaN(a) THEN NaN ELSE IF IsInf(a) THEN Inf(1) ELSE Q(Abs(a.n), a.d)
MathMax(a, b) == IF IsNaN(a) \/ IsNaN(b) THEN NaN ELSE IF JLt(a, b) THEN b ELSE a
MathMin(a, b) == IF IsNaN(a) \/ IsNaN(b) THEN NaN ELSE IF JLt(b, a) THEN b ELSE a
MathSign(a) == IF IsNaN(a) THEN NaN ELSE Num(SignOf(a))

\* a number whose value the model does not compute
SomeNumber == [k |-> "number"]

\* s[lo] + ... + s[hi]
RECURSIVE SumRange(_, _, _)
SumRange(s, lo, hi) ==
  IF lo > hi THEN 0
  ELSE IF lo = hi THEN s[lo]
  ELSE LET mid == (lo + hi) \div 2
       IN SumRange(s, lo, mid) + SumRange(s, mid + 1, hi)
SumSeq(s) == SumRange(s, 1, Len(s))
\* data.slice(-k)
LastK(s, k) == SubSeq(s, Max(1, Len(s) - k + 1), Len(s))

(***************************************************************************)
(* Display indicators (StockDataAggregator.calculateTechnicalIndicators).  *)
(* Prices are whole numbers (cents).  EMA, MACD and the Bollinger bands    *)
(* always yield a number; their values are not computed here.              *)
(***************************************************************************)
SeriesKinds == {"flat", "rising", "falling", "zigzag"}
\* the bar at 1-based position i of a generated series; adjClose = 0 is a
\* missing (falsy) adjusted close
SeriesBar(kind, i) ==
  CASE kind = "flat"    -> [close |-> 100, adjClose |-> 100]
    [] kind = "rising"  -> [close |-> 100 + i, adjClose |-> 0]
    [] kind = "falling" -> [close |-> 400 - i, adjClose |-> 399 - i]
    [] kind = "zigzag"  -> [close |-> 100 + 3 * (i % 2), adjClose |-> 0]
Series(kind, n) == [i \in 1..n |-> SeriesBar(kind, i)]

\* private calculateSMA(data, period)
aggCalculateSMA(data, period) ==
  IF Len(data) < period THEN Num(0)
  ELSE Q(SumSeq(LastK(data, period)), period)

\* the sums of the gains and of the losses over the last `period` changes
RsiSums(data, period) ==
  LET changes == [i \in 1..(Len(data) - 1) |-> data[i + 1] - data[i]]
      recent == LastK(changes, period)
  IN [gains |-> SumSeq([i \in 1..Len(recent) |-> IF recent[i] > 0 THEN recent[i] ELSE 0]),
      losses |-> SumSeq([i \in 1..Len(recent) |-> IF recent[i] > 0 THEN 0 ELSE -recent[i]])]

\* (mutant: the avgLoss === 0 test is missing)
aggCalculateRSIUnguarded(data, period) ==
  IF Len(data) < period + 1 THEN Num(50)
  ELSE LET s == RsiSums(data, period)
       IN JSub(Num(100), JDiv(Num(100),
                 JAdd(Num(1), JDiv(Q(s.gains, period), Q(s.losses, period)))))

\* private calculateRSI(data, period)
aggCalculateRSI(data, period) ==
  IF Len(data) < period + 1 THEN Num(50)
  ELSE LET s == RsiSums(data, period)
           avgGain == Q(s.gains, period)
           avgLoss == Q(s.losses, period)
       IN IF avgLoss = Num(0) THEN Num(100)
          ELSE JSub(Num(100), JDiv(Num(100), JAdd(Num(1), JDiv(avgGain, avgLoss))))

\* (mutant: the minimum length is taken to be the SMA200 window)
aggCalculateTechnicalIndicatorsNeeds200(data) ==
  IF Len(data) < 200 THEN Null
  ELSE [kind |-> "indicators", sma200 |-> SomeNumber]

\* calculateTechnicalIndicators(data)
aggCalculateTechnicalIndicators(data) ==
  IF Len(data) < 26 THEN Null
  ELSE LET closes == [i \in 1..Len(data) |->
                        IF data[i].adjClose # 0 THEN data[i].adjClose ELSE data[i].close]
       IN [kind |-> "indicators",
           rsi |-> aggCalculateRSI(closes, 14),
           macd |-> SomeNumber,
           bollingerBands |-> SomeNumber,
           sma20 |-> aggCalculateSMA(closes, 20),
           sma50 |-> IF Len(data) >= 50 THEN aggCalculateSMA(closes, 50) ELSE Num(0),
           sma200 |-> IF Len(data) >= 200 THEN aggCalculateSMA(closes, 200) ELSE Num(0),
           ema12 |-> SomeNumber,
           ema26 |-> SomeNumber]

\* stockDataAggregator.calculateTechnicalIndicators is called on a series
CalculateTechnicalIndicators(kind, n) ==
  /\ fn = FnIdle
  /\ fn' = [name |-> "calculateTechnicalIndicators", kind |-> kind, len |-> n,
            result |-> aggCalculateTechnicalIndicators(Series(kind, n))]
  /\ UNCHANGED <<cacheVars, aggVars, loaderVars, client, req, store>>

(***************************************************************************)
(* Request validation (lib/api/validation) and GET /api/stocks/[symbol].   *)
(* searchParams.get('period') is null or a string: a raw period is         *)
(* [present |-> FALSE] or [present |-> TRUE, text |-> ...].                 *)
(***************************************************************************)
validPeriods == {"1d", "5d", "1mo", "3mo", "6mo", "1y", "2y", "5y"}
NoPeriod == [present |-> FALSE]
Period(t) == [present |-> TRUE, text |-> t]
RawPeriods == {NoPeriod} \cup {Period(t) : t \in validPeriods \cup {"", "10y", "1Y", "max"}}
RawSymbols == {"AAPL", " aapl", "", "AAPL$", "ABCDEFGHIJK"}

trim(s) == IF s = " aapl" THEN "aapl" ELSE s
\* JavaScript truthiness of a string | null
TruthyText(p) == p.present /\ p.text # ""

\* validateSymbol: required, 1..10 characters of [A-Z0-9.-] after trim and upper-casing
validateSymbol(s) ==
  LET cleanSymbol == toUpperCase(trim(s))
  IN /\ s # ""
     /\ cleanSymbol # ""
     /\ cleanSymbol # "ABCDEFGHIJK"      \* length > 10
     /\ cleanSymbol # "AAPL$"            \* fails /^[A-Z0-9.-]+$/

sanitizeSymbol(s) == toUpperCase(trim(s))

\* validatePeriod(period).valid
validatePeriod(p) ==
  IF ~TruthyText(p) THEN TRUE        \* use default
  ELSE p.text \in validPeriods

\* (mutant: the raw text is passed through)
sanitizePeriodUnchecked(p) == IF p.present THEN p.text ELSE "1y"

\* sanitizePeriod
sanitizePeriod(p) ==
  IF TruthyText(p) /\ p.text \in validPeriods THEN p.text ELSE "1y"

\* what the aggregator calls of one request can resolve with
RouteQuotes(s) == {Null, Quote("yahoo", s), Quote("alphavantage", s)}
RouteHistoryLengths == {0, 2, 26}

Respond(status, body) == [kind |-> "response", status |-> status, body |-> body]

\* (mutant: the response is built as soon as the quote is in)
QuoteSettled(r) == r.quoteState = "done"

\* await Promise.all([getQuote, getHistoricalData]) resumes (neither call rejects)
BothSettled(r) == r.quoteState = "done" /\ r.histState = "done"

\* GET: from the call to the first await of the fetches, or to a 400 response
RouteGet(rawSymbol, rawPeriod, ind) ==
  LET r0 == [ReqIdle EXCEPT !.n = req.n + 1, !.rawSymbol = rawSymbol,
                            !.rawPeriod = rawPeriod, !.indicators = ind]
  IN
  /\ req.pc \in {"idle", "done"}
  /\ req.n < MaxRequests
  /\ req' =
       IF ~validateSymbol(rawSymbol)
       THEN [r0 EXCEPT !.pc = "done", !.response = Respond(400, "symbol")]
       ELSE IF ~validatePeriod(rawPeriod)
       THEN [r0 EXCEPT !.pc = "done", !.symbol = sanitizeSymbol(rawSymbol),
                       !.response = Respond(400, "period")]
       ELSE [r0 EXCEPT !.pc = "fetching",
                       !.symbol = sanitizeSymbol(rawSymbol),
                       !.period = sanitizePeriod(rawPeriod),
                       !.quoteState = "pending", !.histState = "pending",
                       !.events = <<"getQuote", "getHistoricalData">>]
  /\ UNCHANGED <<cacheVars, aggVars, loaderVars, client, fn, store>>

\* stockDataAggregator.getQuote(symbol) has resolved
RouteQuoteSettled(q) ==
  /\ req.pc = "fetching" /\ req.quoteState = "pending"
  /\ q \in RouteQuotes(req.symbol)
  /\ req' = [req EXCEPT !.quoteState = "done", !.quote = q,
                        !.events = Append(@, "quote")]
  /\ UNCHANGED <<cacheVars, aggVars, loaderVars, client, fn, store>>

\* stockDataAggregator.getHistoricalData(symbol, period) has resolved with n bars
RouteHistorySettled(n) ==
  /\ req.pc = "fetching" /\ req.histState = "pending"
  /\ req' = [req EXCEPT !.histState = "done",
                        !.hist = Series("rising", n),
                        !.events = Append(@, "history")]
  /\ UNCHANGED <<cacheVars, aggVars, loaderVars, client, fn, store>>

\* after the await: 404 without a quote, else the combined 200 response
RouteRespond ==
  /\ req.pc = "fetching"
  /\ BothSettled(req)
  /\ req' = [req EXCEPT
       !.pc = "done",
       !.events = Append(@, "respond"),
       !.response =
         IF ~Truthy(req.quote) THEN Respond(404, "not found")
         ELSE Respond(200,
                [quote |-> req.quote,
                 historical |-> Len(req.hist),
                 indicators |-> IF req.indicators /\ Len(req.hist) > 0
                                THEN aggCalculateTechnicalIndicators(req.hist).kind
                                ELSE "null",
                 symbol |-> req.symbol,
                 period |-> req.period,
                 dataPoints |-> Len(req.hist)])]
  /\ UNCHANGED <<cacheVars, aggVars, loaderVars, client, fn, store>>

(***************************************************************************)
(* Direction of a prediction: the classification inside predict and the    *)
(* exported getPredictionDirection.                                        *)
(***************************************************************************)
\* prices in tenths; the current price is a market close, hence positive
CurrentPrices == {Num(100), Num(1), Q(2003, 10), Num(250)}
PredictedPrices ==
  {Num(100), Q(1003, 10), Q(1005, 10), Q(995, 10), Num(101), Num(99), Num(1), Num(0),
   Num(-5), Q(2003, 10), Q(2013, 10), Q(1993, 10), Num(250), Num(260), Q(2512, 10)}
NeutralThresholds == {Num(0), Q(5, 1000), Q(1, 100), Q(5, 100)}

\* (mutant: the percentage is compared with the threshold as a fraction)
inlineDirectionUnscaled(finalPrediction, currentPrice, neutral_threshold) ==
  LET priceChange == JSub(finalPrediction, currentPrice)
      priceChangePercent == JMul(JDiv(priceChange, currentPrice), Num(100))
  IN IF JLt(MathAbs(priceChangePercent), neutral_threshold) THEN "neutral"
     ELSE IF JGt(priceChange, Num(0)) THEN "up"
     ELSE "down"

\* predict: priceChange, priceChangePercent, direction
inlineDirection(finalPrediction, currentPrice, neutral_threshold) ==
  LET priceChange == JSub(finalPrediction, currentPrice)
      priceChangePercent == JMul(JDiv(priceChange, currentPrice), Num(100))
  IN IF JLt(MathAbs(priceChangePercent), JMul(neutral_threshold, Num(100))) THEN "neutral"
     ELSE IF JGt(priceChange, Num(0)) THEN "up"
     ELSE "down"

getPredictionDirection(predictedPrice, currentPrice, neutralThreshold) ==
  LET changePercent == JDiv(JSub(predictedPrice, currentPrice), currentPrice)
  IN IF JLt(MathAbs(changePercent), neutralThreshold) THEN "neutral"
     ELSE IF JGt(changePercent, Num(0)) THEN "up"
     ELSE "down"

\* one prediction is classified both ways
Direction(predicted, current, threshold) ==
  /\ fn = FnIdle
  /\ fn' = [name |-> "direction", predicted |-> predicted, current |-> current,
            threshold |-> threshold,
            inline |-> inlineDirection(predicted, current, threshold),
            util |-> getPredictionDirection(predicted, current, threshold)]
  /\ UNCHANGED <<cacheVars, aggVars, loaderVars, client, req, store>>

(***************************************************************************)
(* StockPredictor.calculateConfidence                                      *)
(***************************************************************************)
ModelPredictions ==
  {Num(0), Num(100), Num(101), Num(99), Num(-100), Num(-5), Num(110), Q(1003, 10)}

calculateConfidence(lstmPred, xgbPred, currentPrice) ==
  LET avgPrediction == JDiv(JAdd(lstmPred, xgbPred), Num(2))
      predictionDiff == MathAbs(JSub(lstmPred, xgbPred))
      relativeDiff == JDiv(predictionDiff, avgPrediction)
      agreementScore == MathMax(Num(0), JSub(Num(1), JMul(relativeDiff, Num(10))))
      lstmDirection == MathSign(JSub(lstmPred, currentPrice))
      xgbDirection == MathSign(JSub(xgbPred, currentPrice))
      directionBonus == IF lstmDirection = xgbDirection THEN Q(1, 10) ELSE Q(-1, 10)
      confidence == JMul(JAdd(agreementScore, directionBonus), Num(100))
  IN MathMax(Num(0), MathMin(Num(100), confidence))

CalculateConfidence(lstmPred, xgbPred, currentPrice) ==
  /\ fn = FnIdle
  /\ fn' = [name |-> "calculateConfidence", lstmPred |-> lstmPred, xgbPred |-> xgbPred,
            currentPrice |-> currentPrice,
            result |-> calculateConfidence(lstmPred, xgbPred, currentPrice)]
  /\ UNCHANGED <<cacheVars, aggVars, loaderVars, client, req, store>>

(***************************************************************************)
(* StockPredictor.getNextTradingDay.  A Date is a local calendar date and  *)
(* a time of day in milliseconds; year 0 is a common year that starts on   *)
(* the weekday jan1 (0 = Sunday), year 1 is the year after it.             *)
(***************************************************************************)
DaysIn(month) ==
  IF month = 2 THEN 28 ELSE IF month \in {4, 6, 9, 11} THEN 30 ELSE 31
MarketClose == 16 * 3600000
TimesOfDay == {0, MarketClose - 1, MarketClose, 86399999}
Weekdays1Jan == 0..6

\* Date.prototype.setDate(n) for n >= 1: days past the end of the month
\* carry into the following months
RECURSIVE setDate(_, _)
setDate(d, n) ==
  IF n <= DaysIn(d.month) THEN [d EXCEPT !.date = n]
  ELSE IF d.month = 12
       THEN setDate([d EXCEPT !.year = @ + 1, !.month = 1], n - DaysIn(12))
       ELSE setDate([d EXCEPT !.month = @ + 1], n - DaysIn(d.month))
setHours(d, ms) == [d EXCEPT !.time = ms]

\* the number of the calendar day, counted from 1 January of year 0
RECURSIVE DaysBefore(_)
DaysBefore(month) == IF month = 1 THEN 0 ELSE DaysBefore(month - 1) + DaysIn(month - 1)
Ordinal(d) == 365 * d.year + DaysBefore(d.month) + d.date
WeekdayOf(ordinal, jan1) == (jan1 + ordinal - 1) % 7
getDay(d) == WeekdayOf(Ordinal(d), d.jan1)

\* (mutant: the Saturday rule is missing)
getNextTradingDayFridayOnly(now0) ==
  LET day == getDay(now0)
      daysToAdd == IF day = 5 THEN 3 ELSE 1
  IN setHours(setDate(now0, now0.date + daysToAdd), MarketClose)

getNextTradingDay(now0) ==
  LET day == getDay(now0)
      daysToAdd == IF day = 6 THEN 2 ELSE IF day = 5 THEN 3 ELSE 1
  IN setHours(setDate(now0, now0.date + daysToAdd), MarketClose)

GetNextTradingDay(month, date, time, jan1) ==
  /\ fn = FnIdle
  /\ LET now0 == [year |-> 0, month |-> month, date |-> date, time |-> time, jan1 |-> jan1]
     IN fn' = [name |-> "getNextTradingDay", now |-> now0, result |-> getNextTradingDay(now0)]
  /\ UNCHANGED <<cacheVars, aggVars, loaderVars, client, req, store>>

(***************************************************************************)
(* Feature rows (preprocessing: calculateTechnicalIndicators and           *)
(* prepareFeatures).  Positions are 1-based: position p is the source's    *)
(* index p - 1.  Averages, RSI, returns, ratios and momentum are computed; *)
(* EMA, MACD, Bollinger bands and volatility are kept as the function      *)
(* applied to exactly the numbers the source passes to it.                 *)
(***************************************************************************)
Term(f, args) == [k |-> "term", f |-> f, args |-> args]
\* an array whose elements have all been computed
Array(f) == SubSeq(f, 1, Len(f))
Min(a, b) == IF a <= b THEN a ELSE b

FeatureKinds == {"rising", "zigzag"}
FeatureBar(kind, p) ==
  LET c == IF kind = "rising" THEN 100 + p ELSE 100 + 3 * (p % 2) + (p % 5)
  IN [open |-> c - 1, high |-> c + 2, low |-> c - 2, close |-> c,
      volume |-> 1000 + 10 * (p % 7)]
FeatureSeries(kind, n) == Array([p \in 1..n |-> FeatureBar(kind, p)])
FeatureLengths == {1, 6, 13, 21, 27, 52}

\* a second series that agrees with data on the positions before k
Changes == {"close", "volume", "tail", "cut"}
Changed(data, k, change) ==
  CASE change = "close"  -> [data EXCEPT ![k].close = @ + 7]
    [] change = "volume" -> [data EXCEPT ![k].volume = @ + 500]
    [] change = "tail"   -> [p \in 1..Len(data) |->
                               IF p < k THEN data[p]
                               ELSE [data[p] EXCEPT !.close = @ + p, !.high = @ + p]]
    [] change = "cut"    -> SubSeq(data, 1, k - 1)

\* closes.slice(0, i + 1) at position p = i + 1
\* (mutant: the whole series is passed instead of the slice)
WholeSeries(values, p) == values
SliceTo(values, p) == SubSeq(values, 1, p)

calculateSMA(data, period) ==
  IF Len(data) < period THEN Num(data[Len(data)])
  ELSE Q(SumSeq(LastK(data, period)), period)

calculateRSI(data, period) ==
  IF Len(data) < period + 1 THEN Num(50)
  ELSE LET s == RsiSums(data, period)
           avgGain == Q(s.gains, period)
           avgLoss == Q(s.losses, period)
       IN IF avgLoss = Num(0) THEN Num(100)
          ELSE JSub(Num(100), JDiv(Num(100), JAdd(Num(1), JDiv(avgGain, avgLoss))))

\* calculateTechnicalIndicators(data): one enriched point per bar
withIndicators(data) ==
  LET closes == Array([p \in 1..Len(data) |-> data[p].close])
  IN Array([p \in 1..Len(data) |->
       LET i == p - 1
           point == data[p]
           window == SliceTo(closes, p)
       IN [open |-> point.open, high |-> point.high, low |-> point.low,
           close |-> point.close, volume |-> point.volume,
           rsi |-> IF i >= 14 THEN calculateRSI(window, 14) ELSE Num(50),
           macd |-> IF i >= 26 THEN Term("calculateMACD", window) ELSE Num(0),
           bollingerBands |-> IF i >= 20 THEN Term("calculateBollingerBands", window)
                              ELSE Num(point.close),
           sma20 |-> IF i >= 20 THEN calculateSMA(window, 20) ELSE Num(point.close),
           sma50 |-> IF i >= 50 THEN calculateSMA(window, 50) ELSE Num(point.close),
           ema12 |-> IF i >= 12 THEN Term("calculateEMA12", window) ELSE Num(point.close),
           ema26 |-> IF i >= 26 THEN Term("calculateEMA26", window) ELSE Num(point.close)]])

\* d.close / withIndicators[i - back].close - 1
Momentum(w, p, back) ==
  IF p - 1 >= back /\ w[p - back].close # 0
  THEN JSub(Q(w[p].close, w[p - back].close), Num(1))
  ELSE Num(0)

\* prepareFeatures(data): the feature row of every bar
prepareFeaturesOf(data) ==
  LET w == withIndicators(data)
  IN Array([p \in 1..Len(w) |->
       LET i == p - 1
           d == w[p]
           prev == IF i > 0 THEN w[p - 1] ELSE d
           dailyReturn == IF prev.close # 0 THEN Q(d.close - prev.close, prev.close)
                          ELSE Num(0)
           volumeSMA == IF i >= 20
                        THEN calculateSMA([q \in 1..p |-> data[q].volume], 20)
                        ELSE Num(d.volume)
           volumeRatio == IF volumeSMA # Num(0) THEN JDiv(Num(d.volume), volumeSMA)
                          ELSE Num(1)
           volatility == IF i >= 20
                         THEN Term("volatility", [q \in 1..21 |-> w[p - 21 + q].close])
                         ELSE Num(0)
           bbWidth == IF i >= 20 THEN Term("bbWidth", <<d.bollingerBands>>) ELSE Num(0)
       IN <<Num(d.open), Num(d.high), Num(d.low), Num(d.close), Num(d.volume),
            d.rsi, d.macd, d.bollingerBands, bbWidth, d.sma20, d.sma50, d.ema12, d.ema26,
            dailyReturn, volatility, volumeRatio,
            Momentum(w, p, 5), Momentum(w, p, 10), Momentum(w, p, 20),
            IF d.sma20 # Num(0) THEN JDiv(Num(d.close), d.sma20) ELSE Num(1),
            IF d.sma50 # Num(0) THEN JDiv(Num(d.close), d.sma50) ELSE Num(1)>>])

\* the features of a series and of a second one that first differs at k
FeatureComparison(kind, n, k, change) ==
  LET a == FeatureSeries(kind, n)
      ra == prepareFeaturesOf(a)
      rb == prepareFeaturesOf(Changed(a, k, change))
  IN [name |-> "prepareFeatures", kind |-> kind, len |-> n, first |-> k,
      change |-> change, rows |-> Len(ra), otherRows |-> Len(rb),
      differs |-> {p \in 1..Min(Len(ra), Len(rb)) : ra[p] # rb[p]}]

PrepareFeatures(kind, n, k, change) ==
  /\ fn = FnIdle
  /\ fn' = FeatureComparison(kind, n, k, change)
  /\ UNCHANGED <<cacheVars, aggVars, loaderVars, client, req, store>>

(***************************************************************************)
(* RSI: the aggregator's calculateRSI and the preprocessing calculateRSI   *)
(* on the same closing prices.                                             *)
(***************************************************************************)
RsiKinds == {"flat", "rising", "falling", "zigzag", "peak", "dip"}
RsiClose(kind, i) ==
  CASE kind = "flat"    -> 100
    [] kind = "rising"  -> 100 + i
    [] kind = "falling" -> 200 - 2 * i
    [] kind = "zigzag"  -> 100 + 3 * (i % 2) + (i % 3)
    [] kind = "peak"    -> IF i <= 20 THEN 100 + i ELSE 140 - i
    [] kind = "dip"     -> IF i <= 20 THEN 100 - i ELSE 60 + i
RsiSeries(kind, n) == Array([i \in 1..n |-> RsiClose(kind, i)])
\* every series of up to MaxShortLen prices out of three
ShortPrices == {1, 2, 3}
ShortSeries == UNION {[1..n -> ShortPrices] : n \in 0..MaxShortLen}

RsiResult(data, period) ==
  [name |-> "calculateRSI", closes |-> data, period |-> period,
   trailing |-> RsiSums(data, period),
   aggregator |-> aggCalculateRSI(data, period),
   preprocessing |-> calculateRSI(data, period)]

\* both calculateRSI functions are applied to a series
CalculateRSI(data, period) ==
  /\ fn = FnIdle
  /\ fn' = RsiResult(data, period)
  /\ UNCHANGED <<cacheVars, aggVars, loaderVars, client, req, store>>

(***************************************************************************)
(* Ensemble combination inside predict                                     *)
(***************************************************************************)
\* options.useEnsemble and options.lstmWeight as a caller may pass them
UseEnsembleOptions == {"undefined", "true", "false"}
NoWeight == [k |-> "undefined"]
LstmWeightOptions == {NoWeight, Num(0), Q(7, 10), Num(1)}
EnsembleConfig(lw, xw, nt, lb, xb) ==
  [kind |-> "ensembleConfig", lstm_weight |-> lw, xgboost_weight |-> xw,
   neutral_threshold |-> nt, lstm_bias_correction |-> lb, xgboost_bias_correction |-> xb]
\* models.ensembleConfig: absent, or what ensemble_weights.json held
LoadedEnsembleConfigs ==
  {Null,
   EnsembleConfig(Q(6, 10), Q(4, 10), Q(5, 1000), Num(0), Num(0)),
   EnsembleConfig(Q(5, 10), Q(7, 10), Q(1, 100), Num(1), Num(-2))}
CombinedPredictions == {Num(100), Num(101), Num(99), Q(1003, 10)}

\* lstmWeight || 0.6
WeightOrDefault(lstmWeight) ==
  IF lstmWeight = NoWeight \/ lstmWeight = Num(0) THEN Q(6, 10) ELSE lstmWeight

\* models.ensembleConfig || { ... }
EffectiveEnsembleConfig(loaded, lstmWeight) ==
  IF loaded # Null THEN loaded
  ELSE EnsembleConfig(WeightOrDefault(lstmWeight),
                      JSub(Num(1), WeightOrDefault(lstmWeight)),
                      Q(5, 1000), Num(0), Num(0))

\* (mutant: the bias corrections are not applied)
ensemblePredictionNoBias(lstmPred, xgbPred, currentPrice, config) ==
  JAdd(JMul(config.lstm_weight, lstmPred), JMul(config.xgboost_weight, xgbPred))

ensemblePrediction(lstmPred, xgbPred, currentPrice, config) ==
  LET correctedLstm == JAdd(lstmPred, config.lstm_bias_correction)
      correctedXgb == JAdd(xgbPred, config.xgboost_bias_correction)
  IN JAdd(JMul(config.lstm_weight, correctedLstm), JMul(config.xgboost_weight, correctedXgb))

\* predict: ensembleConfig and finalPrediction
CombineResult(lstmPrediction, xgboostPrediction, currentPrice, loaded, useEnsembleOption, lstmWeight) ==
  LET useEnsemble == useEnsembleOption # "false"
      ensembleConfig == EffectiveEnsembleConfig(loaded, lstmWeight)
  IN [name |-> "ensemble", lstmPrediction |-> lstmPrediction,
      xgboostPrediction |-> xgboostPrediction, loaded |-> loaded,
      useEnsemble |-> useEnsembleOption, lstmWeight |-> lstmWeight,
      ensembleConfig |-> ensembleConfig,
      finalPrediction |->
        IF useEnsemble
        THEN ensemblePrediction(lstmPrediction, xgboostPrediction, currentPrice, ensembleConfig)
        ELSE lstmPrediction]

Combine(l, x, loaded, useEnsembleOption, lstmWeight) ==
  /\ fn = FnIdle
  /\ fn' = CombineResult(l, x, Num(100), loaded, useEnsembleOption, lstmWeight)
  /\ UNCHANGED <<cacheVars, aggVars, loaderVars, client, req, store>>

(***************************************************************************)
(* useStockStore: the watchlist and the recent searches.  The store is     *)
(* persisted: create() starts from [] and the persist middleware then      *)
(* restores the watchlist and recentSearches an earlier session saved.     *)
(* `n` counts the calls made and stands for new Date() in addedAt; `last`   *)
(* is history: the call last made, its argument and the lists before it.    *)
(***************************************************************************)
MaxRecent == 10
Tickers == <<"AAPL", "MSFT", "GOOG", "AMZN", "TSLA", "META", "NVDA", "NFLX", "INTC",
             "ORCL", "IBM", "AMD">>
WatchSymbols == {"AAPL", "aapl", "Aapl", "MSFT", "msft"}
SearchSymbols == {"AAPL", "aapl", "TSLA", "orcl", "IBM", "amd"}
WatchNames == {"Apple Inc."}

\* the recentSearches an earlier session can have saved: the symbols searched,
\* latest first
SavedSearches == {SubSeq(Tickers, 1, n) : n \in 0..MaxRecent}

\* current.find((item) => item.symbol === symbol), without the upper-casing
addToWatchlistCaseSensitive(current, symbol, name, at) ==
  IF ~\E i \in DOMAIN current : current[i].symbol = symbol
  THEN Append(current, [symbol |-> toUpperCase(symbol), name |-> name, addedAt |-> at])
  ELSE current

addToWatchlist(current, symbol, name, at) ==
  LET upperSymbol == toUpperCase(symbol) IN
  IF ~\E i \in DOMAIN current : current[i].symbol = upperSymbol
  THEN Append(current, [symbol |-> upperSymbol, name |-> name, addedAt |-> at])
  ELSE current

removeFromWatchlist(current, symbol) ==
  LET upperSymbol == toUpperCase(symbol)
      keep(item) == item.symbol # upperSymbol
  IN SelectSeq(current, keep)

isInWatchlist(current, symbol) ==
  LET upperSymbol == toUpperCase(symbol) IN
  \E i \in DOMAIN current : current[i].symbol = upperSymbol

\* [upperSymbol, ...filtered] without .slice(0, 10)
addRecentSearchUnbounded(current, symbol) ==
  LET upperSymbol == toUpperCase(symbol)
      keep(s) == s # upperSymbol
  IN <<upperSymbol>> \o SelectSeq(current, keep)

addRecentSearch(current, symbol) ==
  LET upperSymbol == toUpperCase(symbol)
      keep(s) == s # upperSymbol
      filtered == SelectSeq(current, keep)
      all == <<upperSymbol>> \o filtered
  IN SubSeq(all, 1, Min(MaxRecent, Len(all)))

StoreCall(name, symbol, out) ==
  [name |-> name, symbol |-> symbol, watchlist |-> store.watchlist,
   recentSearches |-> store.recentSearches, out |-> out]

AddToWatchlist(symbol, name) ==
  /\ store.n < MaxStoreCalls
  /\ store' = [store EXCEPT
       !.watchlist = addToWatchlist(store.watchlist, symbol, name, store.n + 1),
       !.n = @ + 1,
       !.last = StoreCall("addToWatchlist", symbol, Null)]
  /\ UNCHANGED <<cacheVars, aggVars, loaderVars, client, req, fn>>

RemoveFromWatchlist(symbol) ==
  /\ store.n < MaxStoreCalls
  /\ store' = [store EXCEPT
       !.watchlist = removeFromWatchlist(store.watchlist, symbol),
       !.n = @ + 1,
       !.last = StoreCall("removeFromWatchlist", symbol, Null)]
  /\ UNCHANGED <<cacheVars, aggVars, loaderVars, client, req, fn>>

IsInWatchlist(symbol) ==
  /\ store.n < MaxStoreCalls
  /\ store' = [store EXCEPT
       !.n = @ + 1,
       !.last = StoreCall("isInWatchlist", symbol, isInWatchlist(store.watchlist, symbol))]
  /\ UNCHANGED <<cacheVars, aggVars, loaderVars, client, req, fn>>

AddRecentSearch(symbol) ==
  /\ store.n < MaxStoreCalls
  /\ store' = [store EXCEPT
       !.recentSearches = addRecentSearch(store.recentSearches, symbol),
       !.n = @ + 1,
       !.last = StoreCall("addRecentSearch", symbol, Null)]
  /\ UNCHANGED <<cacheVars, aggVars, loaderVars, client, req, fn>>

ClearRecentSearches ==
  /\ store.n < MaxStoreCalls
  /\ store' = [store EXCEPT
       !.recentSearches = <<>>,
       !.n = @ + 1,
       !.last = StoreCall("clearRecentSearches", "", Null)]
  /\ UNCHANGED <<cacheVars, aggVars, loaderVars, client, req, fn>>

(***************************************************************************)
(* POST /api/predict: generateTechnicalPrediction and calculateVolatility. *)
(* Prices are whole numbers of cents, so Math.round(p * 100) / 100 is the   *)
(* price rounded to a whole cent.  The histories are flat or swing between *)
(* two prices: on them every square root taken is the root of the square   *)
(* of a fraction.  The MACD histogram of a flat history is 0 (every EMA of  *)
(* a constant series is that constant); on the other histories its value   *)
(* is not computed and it is drawn from the three signs.  The signals       *)
(* texts are not represented.                                              *)
(***************************************************************************)
\* the largest k in lo..hi with k * k <= n
RECURSIVE RootIn(_, _, _)
RootIn(n, lo, hi) ==
  IF lo = hi THEN lo
  ELSE LET mid == (lo + hi + 1) \div 2
       IN IF mid * mid <= n THEN RootIn(n, mid, hi) ELSE RootIn(n, lo, mid - 1)
ISqrt(n) == RootIn(n, 0, 46340)
\* Math.sqrt, on NaN, negatives, infinity and squares of fractions
MathSqrt(a) ==
  IF IsNaN(a) THEN NaN
  ELSE IF IsInf(a) THEN (IF a.s > 0 THEN a ELSE NaN)
  ELSE IF a.n < 0 THEN NaN
  ELSE Q(ISqrt(a.n), ISqrt(a.d))
\* Math.round: the nearest integer, halves upwards
MathRound(a) ==
  IF ~IsNum(a) THEN a ELSE Num((2 * a.n + a.d) \div (2 * a.d))

\* numbers.reduce((a, b) => a + b, 0) over s[lo..hi]
RECURSIVE JSumRange(_, _, _)
JSumRange(s, lo, hi) ==
  IF lo > hi THEN Num(0)
  ELSE IF lo = hi THEN s[lo]
  ELSE LET mid == (lo + hi) \div 2
       IN JAdd(JSumRange(s, lo, mid), JSumRange(s, mid + 1, hi))
JSum(s) == JSumRange(s, 1, Len(s))

HistoryKinds == {"flat", "swingLow", "swingHigh"}
\* the two prices of a history, in cents; a flat history stays at one price
HistoryPrices(kind) ==
  IF kind = "flat" THEN {<<100, 100>>, <<5000, 5000>>}
  ELSE {<<100, 101>>, <<200, 202>>, <<400, 404>>, <<5000, 5050>>}
HistoryLengths(kind) ==
  IF kind = "flat" THEN {100 + 2 * k : k \in 0..MaxExtraPairs}
  ELSE {101 + 2 * k : k \in 0..MaxExtraPairs}
HistoryBar(kind, prices, i) ==
  LET close == CASE kind = "flat" -> prices[1]
                 [] kind = "swingLow" -> IF i % 2 = 1 THEN prices[1] ELSE prices[2]
                 [] kind = "swingHigh" -> IF i % 2 = 1 THEN prices[2] ELSE prices[1]
  IN [close |-> close, adjClose |-> close]
History(kind, prices, n) == Array([i \in 1..n |-> HistoryBar(kind, prices, i)])
MacdHistograms(kind) ==
  IF kind = "flat" THEN {Num(0)} ELSE {Num(-1), Num(0), Num(1)}

\* private calculateBollingerBands(data, period)
aggCalculateBollingerBands(data, period) ==
  LET sma == aggCalculateSMA(data, period)
      slice == LastK(data, period)
      squaredDiffs == Array([i \in 1..Len(slice) |->
                         JMul(JSub(Num(slice[i]), sma), JSub(Num(slice[i]), sma))])
      variance == JDiv(JSum(squaredDiffs), Num(period))
      stdDev == MathSqrt(variance)
  IN [upper |-> JAdd(sma, JMul(Num(2), stdDev)),
      middle |-> sma,
      lower |-> JSub(sma, JMul(Num(2), stdDev))]

\* stockDataAggregator.calculateTechnicalIndicators(historicalData), with the
\* fields generateTechnicalPrediction reads
predictIndicators(data, histogram) ==
  LET closes == Array([i \in 1..Len(data) |->
                   IF data[i].adjClose # 0 THEN data[i].adjClose ELSE data[i].close])
      ind == aggCalculateTechnicalIndicators(data)
  IN IF ind = Null THEN Null
     ELSE [ind EXCEPT !.macd = [histogram |-> histogram],
                      !.bollingerBands = aggCalculateBollingerBands(closes, 20)]

\* calculateVolatility(prices)
calculateVolatility(prices) ==
  IF Len(prices) < 2 THEN Num(0)
  ELSE LET returns == Array([i \in 1..(Len(prices) - 1) |->
                         JDiv(Num(prices[i + 1] - prices[i]), Num(prices[i]))])
           mean == JDiv(JSum(returns), Num(Len(returns)))
           sq == Array([i \in 1..Len(returns) |->
                    JMul(JSub(returns[i], mean), JSub(returns[i], mean))])
           variance == JDiv(JSum(sq), Num(Len(returns)))
       IN MathSqrt(variance)

\* bullishScore and bearishScore after the five groups of signals
technicalScores(currentPrice, indicators, historicalData) ==
  LET half == Q(1, 2)
      rsi == IF JLt(indicators.rsi, Num(30)) THEN <<Num(2), Num(0)>>
             ELSE IF JGt(indicators.rsi, Num(70)) THEN <<Num(0), Num(2)>>
             ELSE IF JLt(indicators.rsi, Num(50)) THEN <<Num(0), half>>
             ELSE <<half, Num(0)>>
      macd == IF JGt(indicators.macd.histogram, Num(0)) THEN <<Num(1), Num(0)>>
              ELSE <<Num(0), Num(1)>>
      sma20 == IF JGt(currentPrice, indicators.sma20) THEN <<Num(1), Num(0)>>
               ELSE <<Num(0), Num(1)>>
      sma50 == IF JGt(currentPrice, indicators.sma50) THEN <<half, Num(0)>>
               ELSE <<Num(0), half>>
      bands == IF JLt(currentPrice, indicators.bollingerBands.lower) THEN <<Num(1), Num(0)>>
               ELSE IF JGt(currentPrice, indicators.bollingerBands.upper)
                    THEN <<Num(0), Num(1)>>
               ELSE <<Num(0), Num(0)>>
      recentPrices == LastK(historicalData, 5)
      momentum == IF Len(recentPrices) > 1
                  THEN JDiv(Num(recentPrices[Len(recentPrices)].close - recentPrices[1].close),
                            Num(recentPrices[1].close))
                  ELSE Num(0)
      mom == IF JGt(momentum, Q(2, 100)) THEN <<Num(1), Num(0)>>
             ELSE IF JLt(momentum, Q(-2, 100)) THEN <<Num(0), Num(1)>>
             ELSE <<Num(0), Num(0)>>
      all == <<rsi, macd, sma20, sma50, bands, mom>>
  IN [bullish |-> JSum([i \in 1..6 |-> all[i][1]]),
      bearish |-> JSum([i \in 1..6 |-> all[i][2]])]

\* generateTechnicalPrediction(currentPrice, indicators, historicalData)
generateTechnicalPrediction(currentPrice, indicators, historicalData) ==
  IF indicators = Null
  THEN [predictedPrice |-> currentPrice, direction |-> "neutral", confidence |-> Num(0)]
  ELSE
    LET scores == technicalScores(currentPrice, indicators, historicalData)
        bullishScore == scores.bullish
        bearishScore == scores.bearish
        totalScore == JAdd(bullishScore, bearishScore)
        confidence == IF JGt(totalScore, Num(0))
                      THEN JDiv(MathAbs(JSub(bullishScore, bearishScore)), totalScore)
                      ELSE Num(0)
        direction == IF JGt(bullishScore, bearishScore) THEN "up"
                     ELSE IF JLt(bullishScore, bearishScore) THEN "down"
                     ELSE "neutral"
        avgVolatility ==
          calculateVolatility([i \in 1..Len(historicalData) |-> historicalData[i].close])
        priceChangePercent ==
          IF direction = "up"
          THEN JMul(JMul(avgVolatility, JSub(bullishScore, bearishScore)), Q(1, 10))
          ELSE IF direction = "down"
          THEN JMul(JMul(JNeg(avgVolatility), JSub(bearishScore, bullishScore)), Q(1, 10))
          ELSE Num(0)
        predictedPrice == JMul(currentPrice, JAdd(Num(1), priceChangePercent))
    IN [predictedPrice |-> MathRound(predictedPrice),
        currentPrice |-> MathRound(currentPrice),
        priceChange |-> MathRound(JSub(predictedPrice, currentPrice)),
        priceChangePercent |-> JDiv(MathRound(JMul(priceChangePercent, Num(10000))), Num(100)),
        direction |-> direction,
        confidence |-> MathRound(JMul(confidence, Num(100))),
        scores |-> scores,
        \* the price before rounding (not part of the response)
        exactPrice |-> predictedPrice]

\* what POST /api/predict computes from the history it fetched
TechnicalPrediction(kind, prices, n, histogram) ==
  LET historicalData == History(kind, prices, n)
      indicators == predictIndicators(historicalData, histogram)
      currentPrice == Num(historicalData[Len(historicalData)].close)
  IN [name |-> "generateTechnicalPrediction", kind |-> kind, prices |-> prices, len |-> n,
      indicators |-> indicators, currentPrice |-> currentPrice,
      result |-> generateTechnicalPrediction(currentPrice, indicators, historicalData)]

GenerateTechnicalPrediction(kind, prices, n, histogram) ==
  /\ fn = FnIdle
  /\ fn' = TechnicalPrediction(kind, prices, n, histogram)
  /\ UNCHANGED <<cacheVars, aggVars, loaderVars, client, req, store>>

(***************************************************************************)
(* Specifications                                                          *)
(***************************************************************************)
\* a DataCache driven directly
InitCache == CacheInit /\ AggInit /\ LoaderInit /\ CoreInit

NextCache ==
  \/ \E k \in CacheKeys, v \in CacheData, ttl \in CacheTTLs : CacheSetOp(k, v, ttl)
  \/ \E k \in CacheKeys : CacheGetOp(k)
  \/ \E tm \in timers : TimerFire(tm)
  \/ \E d \in CacheDeltas : Tick(d)

SpecCache == InitCache /\ [][NextCache]_vars

\* the aggregator over its cache and the two source clients
InitAggregator == CacheInit /\ AggInit /\ LoaderInit /\ CoreInit

NextAggregator ==
  \/ \E c \in Callers, s \in Symbols : GetQuoteStart(c, s)
  \/ \E c \in Callers, s \in Symbols : \E q \in YahooQuotes(s) : GetQuoteYahoo(c, s, q)
  \/ \E c \in Callers, s \in Symbols : \E q \in AlphaQuotes(s) : GetQuoteAlpha(c, s, q)
  \/ \E c \in Callers, s \in Symbols, p \in AggPeriods : GetHistoricalDataStart(c, s, p)
  \/ \E c \in Callers, items \in YahooHistory : GetHistoricalDataYahoo(c, items)
  \/ \E c \in Callers, items \in AlphaHistory : GetHistoricalDataAlpha(c, items)
  \/ \E c \in Callers, q \in Queries : SearchStocksStart(c, q)
  \/ \E c \in Callers, items \in YahooSearch : SearchStocksYahoo(c, items)
  \/ \E tm \in timers : TimerFire(tm)
  \/ \E d \in AggDeltas : Tick(d)

SpecAggregator == InitAggregator /\ [][NextAggregator]_vars

\* the model loader and the predictor, with evictions
InitLoader == CacheInit /\ AggInit /\ LoaderInit /\ CoreInit

NextLoader ==
  \/ \E c \in Callers, sym \in LoaderSymbols : LoadModels(c, sym)
  \/ \E l \in 1..Len(loads) : \E st \in ModelFailures(l) : LoadSettle(l, st)
  \/ \E c \in Callers : OwnerResume(c)
  \/ \E c \in Callers : SharedResume(c)
  \/ \E sym \in LoaderSymbols : ClearCache(sym)
  \/ ClearCacheAll

SpecLoader == InitLoader /\ [][NextLoader]_vars

\* the loader on one symbol in two spellings, where a continuation that can
\* run does run: the continuation of `await loadPromise` is a microtask
\* queued when the promise settles
NextLoaderFair ==
  \/ \E c \in Callers, sym \in PredictSymbols : LoadModels(c, sym)
  \/ \E l \in 1..Len(loads) : \E st \in ModelFailures(l) : LoadSettle(l, st)
  \/ \E c \in Callers : OwnerResume(c)
  \/ \E c \in Callers : SharedResume(c)
  \/ \E sym \in PredictSymbols : ClearCache(sym)
  \/ ClearCacheAll

SpecLoaderFair ==
  /\ InitLoader /\ [][NextLoaderFair]_vars
  /\ \A c \in Callers : WF_vars(OwnerResume(c))

\* loadModels alone, with every combination of failed fetches
InitLoad == CacheInit /\ AggInit /\ LoaderInit /\ CoreInit

NextLoad ==
  \/ \E c \in Callers, sym \in LoaderSymbols : LoadModels(c, sym)
  \/ \E l \in 1..Len(loads) : \E st \in Settlements(l) : LoadSettle(l, st)
  \/ \E c \in Callers : OwnerResume(c)
  \/ \E c \in Callers : SharedResume(c)

SpecLoad == InitLoad /\ [][NextLoad]_vars

\* predict called concurrently, with its loads and with evictions
InitStockPredictor == CacheInit /\ AggInit /\ LoaderInit /\ CoreInit

NextStockPredictor ==
  \/ \E c \in Callers, sym \in PredictSymbols, n \in LoaderBars : Predict(c, sym, n)
  \/ \E l \in 1..Len(loads) : \E st \in SingleFailures(l) : LoadSettle(l, st)
  \/ \E c \in Callers : OwnerResume(c)
  \/ \E c \in Callers : SharedResume(c)
  \/ \E c \in Callers : PredictModels(c)
  \/ \E c \in Callers : PredictFinish(c)
  \/ \E sym \in PredictSymbols : ClearCache(sym)
  \/ ClearCacheAll

SpecStockPredictor == InitStockPredictor /\ [][NextStockPredictor]_vars

\* predict alone, on every history length and every configured sequence
\* length, resuming with a load in which the model and the scaler are present
PredictInputs ==
  {[pc |-> "models", kind |-> "predict", key |-> "AAPL", bars |-> n, how |-> "cached",
    joined |-> 0,
    models |-> [id |-> 1, lstmModel |-> ModelObj(1), scalerParams |-> Scaler,
                ensembleConfig |-> e, modelConfig |-> ModelConfig(sl)],
    result |-> Null, done |-> FALSE, ranDisposed |-> FALSE] :
   n \in 0..MaxBars, sl \in 1..MaxSeqLen, e \in {Null, Ensemble}}

InitPredict ==
  /\ CacheInit /\ AggInit /\ CoreInit
  /\ \E inp \in PredictInputs :
       /\ pred = [PredIdle EXCEPT !["c1"] = inp]
       /\ modelCache = [k \in {"AAPL"} |-> inp.models]
       /\ loads = <<[key |-> "AAPL", path |-> "aapl", state |-> "fulfilled",
                     value |-> inp.models, settled |-> Null, resumed |-> TRUE,
                     overtaken |-> FALSE]>>
  /\ loadingPromises = <<>>
  /\ disposed = {}
  /\ lcalls = 1
  /\ clears = <<>>

NextPredict ==
  \/ \E c \in Callers : PredictModels(c)
  \/ \E c \in Callers : PredictFinish(c)

SpecPredict == InitPredict /\ [][NextPredict]_vars

\* the two source clients against every provider outcome
InitClients == CacheInit /\ AggInit /\ LoaderInit /\ CoreInit

NextClients ==
  \/ \E cl \in ClientNames, m \in ClientMethods, s \in ClientSymbols : ClientStart(cl, m, s)
  \/ \E r \in FetchOutcomes : ClientFetched(r)
  \/ \E data \in YahooBodies \cup AlphaQuoteBodies \cup AlphaHistoryBodies \cup {Unparsable} :
       ClientParsed(data)

SpecClients == InitClients /\ [][NextClients]_vars

\* GET /api/stocks/[symbol]
InitRoute == CacheInit /\ AggInit /\ LoaderInit /\ CoreInit

NextRoute ==
  \/ \E s \in RawSymbols, p \in RawPeriods, ind \in BOOLEAN : RouteGet(s, p, ind)
  \/ \E q \in RouteQuotes("AAPL") : RouteQuoteSettled(q)
  \/ \E n \in RouteHistoryLengths : RouteHistorySettled(n)
  \/ RouteRespond

SpecRoute == InitRoute /\ [][NextRoute]_vars

\* the display indicators on generated series of every length
InitIndicators == CacheInit /\ AggInit /\ LoaderInit /\ CoreInit

NextIndicators ==
  \/ \E kind \in SeriesKinds, n \in 0..MaxBars : CalculateTechnicalIndicators(kind, n)
  \/ \E kind \in RsiKinds, n \in 0..MaxRsiBars : CalculateRSI(RsiSeries(kind, n), 14)
  \/ \E data \in ShortSeries : CalculateRSI(data, 3)

SpecIndicators == InitIndicators /\ [][NextIndicators]_vars

\* the numeric steps of a prediction on chosen inputs
InitEnsemble == CacheInit /\ AggInit /\ LoaderInit /\ CoreInit

NextEnsemble ==
  \/ \E p \in PredictedPrices, c \in CurrentPrices, t \in NeutralThresholds :
       Direction(p, c, t)
  \/ \E l \in ModelPredictions, x \in ModelPredictions, c \in CurrentPrices :
       CalculateConfidence(l, x, c)
  \/ \E l \in CombinedPredictions, x \in CombinedPredictions, loaded \in LoadedEnsembleConfigs,
          u \in UseEnsembleOptions, w \in LstmWeightOptions :
       Combine(l, x, loaded, u, w)

SpecEnsemble == InitEnsemble /\ [][NextEnsemble]_vars

\* getNextTradingDay at every date of a year, for every weekday of 1 January
InitCalendar == CacheInit /\ AggInit /\ LoaderInit /\ CoreInit

NextCalendar ==
  \/ \E month \in 1..12, time \in TimesOfDay, jan1 \in Weekdays1Jan :
       \E date \in 1..DaysIn(month) : GetNextTradingDay(month, date, time, jan1)

SpecCalendar == InitCalendar /\ [][NextCalendar]_vars

\* feature rows of pairs of series that agree on a prefix
InitFeatures == CacheInit /\ AggInit /\ LoaderInit /\ CoreInit

NextFeatures ==
  \/ \E kind \in FeatureKinds, n \in FeatureLengths, change \in Changes :
       \E k \in 1..n : PrepareFeatures(kind, n, k, change)

SpecFeatures == InitFeatures /\ [][NextFeatures]_vars

\* the store, restored from an earlier session's recent searches
InitStore ==
  /\ CacheInit /\ AggInit /\ LoaderInit
  /\ client = ClientIdle /\ req = ReqIdle /\ fn = FnIdle
  /\ \E saved \in SavedSearches : store = [StoreNew EXCEPT !.recentSearches = saved]

NextStore ==
  \/ \E symbol \in WatchSymbols, name \in WatchNames : AddToWatchlist(symbol, name)
  \/ \E symbol \in WatchSymbols : RemoveFromWatchlist(symbol)
  \/ \E symbol \in WatchSymbols : IsInWatchlist(symbol)
  \/ \E symbol \in SearchSymbols : AddRecentSearch(symbol)
  \/ ClearRecentSearches

SpecStore == InitStore /\ [][NextStore]_vars

\* the technical-analysis prediction on chosen histories
InitTechnical == CacheInit /\ AggInit /\ LoaderInit /\ CoreInit

NextTechnical ==
  \E kind \in HistoryKinds :
    \E prices \in HistoryPrices(kind), n \in HistoryLengths(kind),
       histogram \in MacdHistograms(kind) :
      GenerateTechnicalPrediction(kind, prices, n, histogram)

SpecTechnical == InitTechnical /\ [][NextTechnical]_vars

(***************************************************************************)
(* Claims about DataCache and the aggregator                               *)
(***************************************************************************)

\* C1: a delete scheduled by an earlier write of key k never removes an entry
\* that a later set wrote to k and whose own TTL has not elapsed: whenever a
\* timer of an older write runs, the newer entry is still in the map.
C1_StaleTimerKeepsLaterEntry ==
  [][\A tm \in timers :
       ( /\ tm \notin timers'
         /\ tm.key \in DOMAIN cache
         /\ lastSet[tm.key].write # tm.write
         /\ now - lastSet[tm.key].at < lastSet[tm.key].ttl )
       => tm.key \in DOMAIN cache']_vars

\* C2: every get the aggregator issues for a key whose entry is in the map and
\* was written no longer ago than the TTL given at that write (the 60 s
\* default when none was given) returns that entry.
C2_GetReturnsWithinWriteTTL ==
  \A c \in Callers : agg[c].fresh => agg[c].hit

\* C3: a get issued after the TTL given at write time has elapsed returns
\* absent and leaves no entry for the key in the map; a get issued at the
\* very time of the set returns the value.
C3_GetAfterTTLIsMiss ==
  /\ got.stale => (got.data = Null /\ ~got.kept)
  /\ (got.fresh /\ got.age = 0) => got.data = lastSet[got.key].data

\* C7: getQuote calls no client on a live cache entry; on a miss it calls
\* Yahoo first and Alpha Vantage only after Yahoo answered null; it returns
\* the first non-null answer in that order, and null only if both were null.
C7_GetQuoteOrder ==
  \A c \in Callers :
    agg[c].op = "quote" =>
      /\ agg[c].hit =>
           /\ agg[c].called = <<>>
           /\ agg[c].pc = "idle"
           /\ agg[c].ret # Null
      /\ ~agg[c].hit =>
           /\ agg[c].called \in {<<"yahoo">>, <<"yahoo", "alphavantage">>}
           /\ Len(agg[c].called) = 2 => (Len(agg[c].resp) >= 1 /\ agg[c].resp[1] = Null)
           /\ agg[c].pc = "quote" => (agg[c].called = <<"yahoo">> /\ agg[c].resp = <<>>)
           /\ agg[c].pc = "idle" =>
                \/ /\ agg[c].called = <<"yahoo">>
                   /\ agg[c].resp = <<agg[c].ret>>
                   /\ agg[c].ret = Quote("yahoo", agg[c].key[2])
                \/ /\ agg[c].called = <<"yahoo", "alphavantage">>
                   /\ agg[c].resp = <<Null, agg[c].ret>>
                   /\ agg[c].ret \in {Null, Quote("alphavantage", agg[c].key[2])}

\* C7 witness: a getQuote that missed the cache, got null from Yahoo and
\* returned the quote of Alpha Vantage.
C7_Witness ==
  \E c \in Callers :
    /\ agg[c].op = "quote" /\ agg[c].pc = "idle" /\ ~agg[c].hit
    /\ agg[c].called = <<"yahoo", "alphavantage">>
    /\ agg[c].ret = Quote("alphavantage", "AAPL")

\* C8: once bars of the fallback source were stored for (symbol, range), a
\* getHistoricalData(symbol, range) started within the range's TTL of that
\* write is served from the cache: it calls no source and returns those bars.
C8_FallbackServedWithinTTL ==
  \A c \in Callers :
    ( /\ agg[c].op = "historical"
      /\ agg[c].within
      /\ agg[c].prev.kind = "bars"
      /\ \A i \in 1..Len(agg[c].prev.items) : agg[c].prev.items[i].source = "alphavantage" )
    => (agg[c].hit /\ agg[c].called = <<>> /\ agg[c].ret = agg[c].prev)

\* C22: for the ranges 1d and 5d getHistoricalData never calls Alpha
\* Vantage, and returns an empty sequence when Yahoo returned one; bars that
\* Yahoo returned are returned as they are, and the day-count filter is
\* applied to the bars of Alpha Vantage only.
C22_IntradayNeverFallsBack ==
  \A c \in Callers :
    (agg[c].op = "historical" /\ ~agg[c].hit) =>
      /\ agg[c].period \in {"1d", "5d"} => agg[c].called = <<"yahoo">>
      /\ (agg[c].pc = "idle" /\ agg[c].called = <<"yahoo">>) =>
           (Len(agg[c].resp) = 1 /\ agg[c].ret = agg[c].resp[1])
      /\ (agg[c].pc = "idle" /\ agg[c].called = <<"yahoo", "alphavantage">>) =>
           /\ agg[c].resp[1] = Bars(<<>>)
           /\ agg[c].ret = Bars(SelectBars(agg[c].resp[2].items, periodDays(agg[c].period)))

\* C22 witness: a 1d history call that missed the cache, got no bars from
\* Yahoo and returned none without asking Alpha Vantage.
C22_Witness ==
  \E c \in Callers :
    /\ agg[c].op = "historical" /\ agg[c].period = "1d"
    /\ agg[c].pc = "idle" /\ ~agg[c].hit
    /\ agg[c].called = <<"yahoo">>
    /\ agg[c].ret = Bars(<<>>)

\* null, or an empty sequence of bars or of search results
NoData(v) == v = Null \/ (v.kind \in {"bars", "results"} /\ v.items = <<>>)
\* caller c returns from a call that missed the cache
ReturnsFromMiss(c) == agg[c].pc # "idle" /\ agg'[c].pc = "idle"

\* C23 (as stated): when getQuote returns absent, or getHistoricalData or
\* searchStocks returns an empty sequence, the cache holds no entry under
\* the key of the call.
C23_NoEntryAfterNoData ==
  [][\A c \in Callers :
       (ReturnsFromMiss(c) /\ NoData(agg'[c].ret)) => agg[c].key \notin DOMAIN cache']_vars

\* C23 (amended): a call that returns absent or an empty sequence writes
\* nothing to the cache, and no entry of the cache ever holds absent or an
\* empty sequence; a call stores exactly the data it returns.
C23_NoDataIsNeverStored ==
  [][/\ \A c \in Callers :
          ReturnsFromMiss(c) =>
            IF NoData(agg'[c].ret)
            THEN cache' = cache /\ writes' = writes /\ timers' = timers
            ELSE /\ agg[c].key \in DOMAIN cache'
                 /\ cache'[agg[c].key].data = agg'[c].ret
     /\ \A k \in DOMAIN cache' : ~NoData(cache'[k].data)]_vars

\* C23 witness: getQuote got null from both clients and returned null; the
\* cache has no entry for the key.
C23_Witness ==
  \E c \in Callers :
    /\ agg[c].op = "quote" /\ agg[c].pc = "idle" /\ ~agg[c].hit
    /\ agg[c].called = <<"yahoo", "alphavantage">>
    /\ agg[c].ret = Null
    /\ agg[c].key \notin DOMAIN cache

(***************************************************************************)
(* Claims about the model loader and the predictor                         *)
(***************************************************************************)
ArtifactNames == {"lstmModel", "scalerParams", "ensembleConfig", "modelConfig"}

\* C4: loadModels calls for one symbol issued while a load of it is in
\* flight start no second load (a later load of the symbol exists only once
\* the earlier one has been concluded), and every caller that joined a load
\* receives the very object that load resolved with.
C4_OneLoadSharedResult ==
  /\ \A l1, l2 \in 1..Len(loads) :
       (l1 < l2 /\ loads[l1].key = loads[l2].key) => loads[l1].resumed
  /\ \A c \in Callers :
       pred[c].how \in {"started", "shared"} =>
         /\ pred[c].joined \in 1..Len(loads)
         /\ loads[pred[c].joined].key = pred[c].key
         /\ pred[c].pc \notin {"owner", "shared"} =>
              /\ loads[pred[c].joined].state = "fulfilled"
              /\ pred[c].models = loads[pred[c].joined].value
              /\ pred[c].models.id = pred[c].joined

\* C4 witness: two callers of the same symbol, the second arrived while the
\* first one's load was in flight, one load was started in all, and both hold
\* the same result object.
C4_Witness ==
  /\ Len(loads) = 1
  /\ pred["c1"].how = "started" /\ pred["c2"].how = "shared"
  /\ pred["c1"].joined = 1 /\ pred["c2"].joined = 1
  /\ pred["c1"].models # Null
  /\ pred["c1"].models = pred["c2"].models

\* C5: a load never rejects because fetches failed: whatever subset of the
\* four fetches failed, the load resolves, with exactly the failed slots null
\* and every other slot holding the fetched value; no caller sees a rejection.
C5_LoadToleratesFailures ==
  /\ \A l \in 1..Len(loads) :
       loads[l].state # "pending" =>
         /\ loads[l].state = "fulfilled"
         /\ \A a \in ArtifactNames :
              loads[l].value[a] =
                IF a \in Failed(loads[l].settled) THEN Null
                ELSE loads[l].settled[a].value
  /\ \A c \in Callers : pred[c].result.kind # "throws"

\* C5 witness: a load in which the scaler and the model metadata failed has
\* resolved and was returned to its caller with the other two slots filled.
C5_Witness ==
  \E c \in Callers :
    /\ pred[c].done /\ pred[c].models # Null
    /\ Failed(loads[pred[c].joined].settled) = {"scalerParams", "modelConfig"}
    /\ pred[c].models.scalerParams = Null /\ pred[c].models.modelConfig = Null
    /\ pred[c].models.lstmModel = ModelObj(pred[c].joined)
    /\ pred[c].models.ensembleConfig = Ensemble

\* a step in which caller c calls loadModels
CallsLoadModels(c) == Len(clears') = Len(clears) /\ lcalls' = lcalls + 1 /\ pred'[c] # pred[c]

\* C6: while a symbol is in the model cache, loadModels for it returns the
\* cached object and starts no load; the entry stays until a clearCache call;
\* clearCache(symbol) removes that symbol's entry (clearCache() every entry)
\* and disposes the sequence model of what it removes; a loadModels for a
\* symbol neither cached nor in flight starts exactly one load.
C6_CachedUntilCleared ==
  [][ /\ \A c \in Callers :
           (CallsLoadModels(c) /\ pred'[c].key \in DOMAIN modelCache) =>
             /\ loads' = loads
             /\ pred'[c].models = modelCache[pred'[c].key]
      /\ \A c \in Callers :
           ( /\ CallsLoadModels(c)
             /\ pred'[c].key \notin DOMAIN modelCache
             /\ pred'[c].key \notin DOMAIN loadingPromises ) =>
             /\ Len(loads') = Len(loads) + 1
             /\ SubSeq(loads', 1, Len(loads)) = loads
             /\ loads'[Len(loads')].key = pred'[c].key
             /\ loads'[Len(loads')].state = "pending"
      /\ Len(clears') = Len(clears) =>
           \A k \in DOMAIN modelCache :
             k \in DOMAIN modelCache' /\ modelCache'[k] = modelCache[k]
      /\ Len(clears') = Len(clears) + 1 =>
           LET arg == clears'[Len(clears')]
               gone == IF arg = "*" THEN DOMAIN modelCache
                       ELSE {toUpperCase(arg)} \cap DOMAIN modelCache
           IN /\ DOMAIN modelCache' = DOMAIN modelCache \ gone
              /\ \A k \in DOMAIN modelCache' : modelCache'[k] = modelCache[k]
              /\ \A k \in gone :
                   modelCache[k].lstmModel # Null => modelCache[k].lstmModel \in disposed'
    ]_vars

\* C6 witness: a symbol was loaded, a second caller was served from the
\* cache, the entry was evicted with its model disposed, and the next call
\* started the second load of that symbol.
C6_Witness ==
  /\ Len(clears) = 1
  /\ Len(loads) = 2
  /\ loads[1].key = loads[2].key
  /\ ModelObj(1) \in disposed
  /\ \E c1, c2 \in Callers :
       /\ pred[c1].how = "cached" /\ pred[c1].models.id = 1
       /\ pred[c2].how = "started" /\ pred[c2].joined = 2

\* the slots of a LoadedModel that are null
Missing(m) == {a \in ArtifactNames : m[a] = Null}

C10_NeverThrowsOnShortHistory ==
  \A c \in Callers :
    (pred[c].kind = "predict" /\ pred[c].done) =>
      LET sl == pred[c].models.modelConfig.sequenceLength
          remaining == Max(0, pred[c].bars - Max(200, sl))
      IN /\ pred[c].result.kind # "throws"
         /\ remaining < sl => pred[c].result = Null
         /\ remaining >= sl => pred[c].result.kind = "prediction"

\* load l has resolved without the sequence model or without the scaler
Unusable(l) ==
  /\ loads[l].state = "fulfilled"
  /\ Missing(loads[l].value) \cap {"lstmModel", "scalerParams"} # {}
\* load l has resolved and its result was not evicted since: it is still
\* registered as in flight, or it is the cache entry of its symbol
Held(l) ==
  /\ loads[l].state = "fulfilled"
  /\ \/ (loads[l].key \in DOMAIN loadingPromises /\ loadingPromises[loads[l].key] = l)
     \/ (loads[l].key \in DOMAIN modelCache /\ modelCache[loads[l].key].id = l)

\* C24: a load that resolved without the sequence model or the scaler is
\* kept like a successful one: until it is evicted, every loadModels of the
\* symbol starts no fetch and is answered with that result, and every
\* predict that is handed that result returns null.
C24_FailedLoadIsCached ==
  [][/\ \A c \in Callers : \A l \in 1..Len(loads) :
          ( /\ CallsLoadModels(c)
            /\ loads[l].key = pred'[c].key
            /\ Unusable(l) /\ Held(l) ) =>
            /\ loads' = loads
            /\ pred'[c].how \in {"cached", "shared"}
            /\ pred'[c].how = "cached" => pred'[c].models = loads[l].value
            /\ pred'[c].how = "shared" => pred'[c].joined = l
     /\ \A c \in Callers :
          ( /\ pred'[c].kind = "predict" /\ pred'[c].done
            /\ pred'[c].models # Null
            /\ Unusable(pred'[c].models.id) ) =>
            pred'[c].result = Null]_vars

\* C24 witness: the one load of the symbol resolved without its sequence
\* model; the predict that started it and a later predict served from the
\* cache both returned null.
C24_Witness ==
  /\ Len(loads) = 1 /\ Unusable(1)
  /\ clears = <<>>
  /\ \E c1, c2 \in Callers :
       /\ pred[c1].kind = "predict" /\ pred[c1].how = "started" /\ pred[c1].done
       /\ pred[c2].kind = "predict" /\ pred[c2].how = "cached" /\ pred[c2].done
       /\ pred[c1].result = Null /\ pred[c2].result = Null
       /\ pred[c2].models = loads[1].value

\* load l is registered in the in-flight map
InFlight(l) ==
  /\ l \in 1..Len(loads)
  /\ loads[l].key \in DOMAIN loadingPromises
  /\ loadingPromises[loads[l].key] = l

\* C25: the in-flight map holds a symbol while a load of it is pending and
\* until the caller that started the load has gone on: every pending load
\* is registered, a registered symbol is not in the model cache, once its
\* load has settled the entry is eventually removed, and when the loadModels
\* call that started a load returns, the symbol is in the model cache and
\* not in the in-flight map.
C25_InFlightOnlyWhilePending ==
  /\ [](\A l \in 1..Len(loads) : loads[l].state = "pending" => InFlight(l))
  /\ [](\A k \in DOMAIN loadingPromises :
          /\ k \notin DOMAIN modelCache
          /\ ~loads[loadingPromises[k]].resumed
          /\ loads[loadingPromises[k]].key = k)
  /\ [][\A c \in Callers :
          (pred[c].pc = "owner" /\ pred'[c].pc # "owner") =>
            /\ pred[c].key \notin DOMAIN loadingPromises'
            /\ pred[c].key \in DOMAIN modelCache'
            /\ modelCache'[pred[c].key] = pred'[c].models]_vars
  /\ \A l \in 1..MaxLoaderCalls :
       (l <= Len(loads) /\ loads[l].state # "pending") ~> ~InFlight(l)

\* C25 witness: a load has settled, the call that started it has returned,
\* and the symbol is in the model cache and no longer in the in-flight map.
C25_Witness ==
  \E c \in Callers :
    /\ pred[c].how = "started" /\ pred[c].done
    /\ loads[pred[c].joined].resumed
    /\ pred[c].key \in DOMAIN modelCache
    /\ pred[c].key \notin DOMAIN loadingPromises

\* C26: an eviction is not undone by a load that was in flight when it ran:
\* after clearCache the symbol is in the model cache again only through a
\* load started after the eviction.
C26_EvictionOutlastsInFlightLoad ==
  \A k \in DOMAIN modelCache : ~loads[modelCache[k].id].overtaken

\* C27: from the point where predict is handed the loaded model to the
\* point where it has read the model's output, the sequence model it holds
\* is not disposed; in particular model.predict never runs on a disposed
\* model.
C27_ModelNotDisposedDuringInference ==
  \A c \in Callers :
    pred[c].kind = "predict" =>
      /\ ~pred[c].ranDisposed
      /\ (pred[c].pc \in {"models", "lstm"} /\ pred[c].models.lstmModel # Null) =>
           pred[c].models.lstmModel \notin disposed

(***************************************************************************)
(* Claims about the source clients                                         *)
(***************************************************************************)
\* C11: no client call rejects: whatever the provider did (network error,
\* non-2xx status, unparsable body, missing or malformed fields, unknown
\* symbol), getQuote settles with a quote or null and getHistoricalData with
\* a (possibly empty) bar sequence.
C11_ClientsNeverReject ==
  client.pc = "done" =>
    /\ client.out.kind # "throws"
    /\ client.method = "getQuote" => client.out.kind \in {"null", "quote"}
    /\ client.method = "getHistoricalData" => client.out.kind = "bars"
    /\ client.threw # "none" => client.out = Sentinel(client.method)

\* C11 witness: a call whose body threw on a malformed payload ended with
\* the sentinel.
C11_Witness ==
  /\ client.pc = "done"
  /\ client.client = "alphavantage" /\ client.method = "getHistoricalData"
  /\ client.threw = "TypeError"
  /\ client.out = Bars(<<>>)

(***************************************************************************)
(* Claims about the request handler                                        *)
(***************************************************************************)
\* C12: in one GET the quote fetch and the history fetch are started in the
\* same step, before either is awaited, and every response of a request that
\* started them is produced after both have completed and is built from both
\* results.
C12_BothFetchedBeforeResponse ==
  /\ ("getQuote" \in {req.events[i] : i \in 1..Len(req.events)})
       <=> ("getHistoricalData" \in {req.events[i] : i \in 1..Len(req.events)})
  /\ req.pc = "fetching" => SubSeq(req.events, 1, 2) = <<"getQuote", "getHistoricalData">>
  /\ (req.pc = "done" /\ req.events # <<>>) =>
       /\ Len(req.events) = 5
       /\ SubSeq(req.events, 1, 2) = <<"getQuote", "getHistoricalData">>
       /\ {req.events[3], req.events[4]} = {"quote", "history"}
       /\ req.events[5] = "respond"
       /\ req.response.status = 200 =>
            /\ req.response.body.quote = req.quote
            /\ req.response.body.dataPoints = Len(req.hist)
  /\ (req.pc = "done" /\ req.events = <<>>) => req.response.status = 400

\* C12 witness: a 200 response of a request whose history arrived before its
\* quote.
C12_Witness ==
  /\ req.pc = "done"
  /\ req.response.status = 200
  /\ req.events = <<"getQuote", "getHistoricalData", "history", "quote", "respond">>
  /\ req.response.body.dataPoints = 26

OutsideVocabulary(p) == ~p.present \/ p.text \notin validPeriods

\* C13 (as claimed): every range value outside the vocabulary defaults to 1y:
\* sanitizePeriod maps it to 1y and a GET carrying it (with a valid symbol) is
\* served with range 1y.
C13_InvalidPeriodServedAs1y ==
  /\ \A p \in RawPeriods : OutsideVocabulary(p) => sanitizePeriod(p) = "1y"
  /\ (req.pc = "done" /\ validateSymbol(req.rawSymbol) /\ OutsideVocabulary(req.rawPeriod)) =>
       /\ req.response.status # 400
       /\ req.period = "1y"

\* C13 (amended): sanitizePeriod maps every value outside the vocabulary to
\* 1y; a GET with no period or an empty one is served with range 1y; a GET
\* carrying a non-empty period outside the vocabulary is answered 400 and
\* starts no fetch.
C13_MissingPeriodServedAs1y ==
  /\ \A p \in RawPeriods : OutsideVocabulary(p) => sanitizePeriod(p) = "1y"
  /\ \A p \in RawPeriods : ~OutsideVocabulary(p) => sanitizePeriod(p) = p.text
  /\ (req.pc # "idle" /\ validateSymbol(req.rawSymbol) /\ ~TruthyText(req.rawPeriod)) =>
       /\ req.period = "1y"
       /\ req.events # <<>>
       /\ req.pc = "done" => (req.response.status # 400 /\
                              (req.response.status = 200 => req.response.body.period = "1y"))
  /\ (req.pc # "idle" /\ validateSymbol(req.rawSymbol) /\ TruthyText(req.rawPeriod)
        /\ OutsideVocabulary(req.rawPeriod)) =>
       /\ req.pc = "done"
       /\ req.response = Respond(400, "period")
       /\ req.events = <<>>

\* C13 witness: a request with an empty period answered 200 with range 1y.
C13_Witness ==
  /\ req.pc = "done"
  /\ req.rawPeriod = Period("")
  /\ req.response.status = 200
  /\ req.response.body.period = "1y"

(***************************************************************************)
(* Claims about the indicators                                             *)
(***************************************************************************)
\* C14: calculateTechnicalIndicators returns null for every series shorter
\* than 26 bars and an indicator set for every longer one; from 26 to 199
\* bars the set reports sma200 as 0.
C14_IndicatorsNeed26Bars ==
  fn.name = "calculateTechnicalIndicators" =>
    /\ fn.len < 26 => fn.result = Null
    /\ fn.len >= 26 => fn.result.kind = "indicators"
    /\ (fn.len >= 26 /\ fn.len < 200) => fn.result.sma200 = Num(0)
    /\ fn.len >= 200 => fn.result.sma200 # Num(0)

\* C14 witness: a set computed from 199 bars, with sma200 = 0 and sma50 not.
C14_Witness ==
  /\ fn.name = "calculateTechnicalIndicators"
  /\ fn.len = 199
  /\ fn.result # Null
  /\ fn.result.sma200 = Num(0)
  /\ fn.result.sma50 # Num(0)

\* C19: RSI is within [0, 100] for every closing series; it is 100 for a
\* strictly increasing series of at least period + 1 prices, and whenever
\* the trailing period deltas hold no loss; it is 50 for fewer than
\* period + 1 prices.  Both calculateRSI functions behave so.
C19_RsiWithinRange ==
  fn.name = "calculateRSI" =>
    LET n == Len(fn.closes)
        increasing == \A i \in 1..(n - 1) : fn.closes[i] < fn.closes[i + 1]
    IN \A rsi \in {fn.aggregator, fn.preprocessing} :
         /\ JLe(Num(0), rsi) /\ JLe(rsi, Num(100))
         /\ n < fn.period + 1 => rsi = Num(50)
         /\ (n >= fn.period + 1 /\ increasing) => rsi = Num(100)
         /\ (n >= fn.period + 1 /\ fn.trailing.losses = 0) => rsi = Num(100)
         /\ (n >= fn.period + 1 /\ fn.trailing.losses > 0) =>
              rsi = Q(100 * fn.trailing.gains, fn.trailing.gains + fn.trailing.losses)

\* C19 witness: RSI(14) of 15 strictly increasing prices is 100.
C19_Witness ==
  /\ fn.name = "calculateRSI"
  /\ fn.period = 14
  /\ Len(fn.closes) = 15
  /\ \A i \in 1..14 : fn.closes[i] < fn.closes[i + 1]
  /\ fn.aggregator = Num(100)
  /\ fn.preprocessing = Num(100)

(***************************************************************************)
(* Claims about the numeric steps of a prediction                          *)
(***************************************************************************)
\* C15: a prediction is neutral iff |predicted - current| / current is below
\* the neutral threshold, and otherwise up or down by the sign of the
\* change; the classification inside predict and getPredictionDirection
\* agree.  With current 100 and threshold 0.005: 100.3 is neutral, 101 is
\* up, 99 is down.
C15_DirectionByRelativeChange ==
  fn.name = "direction" =>
    LET change == JSub(fn.predicted, fn.current)
        neutral == JLt(JDiv(MathAbs(change), fn.current), fn.threshold)
    IN /\ fn.inline = fn.util
       /\ fn.inline = "neutral" <=> neutral
       /\ fn.inline = "up" <=> (~neutral /\ JGt(change, Num(0)))
       /\ fn.inline = "down" <=> (~neutral /\ ~JGt(change, Num(0)))
       /\ (fn.current = Num(100) /\ fn.threshold = Q(5, 1000)) =>
            /\ fn.predicted = Q(1003, 10) => fn.inline = "neutral"
            /\ fn.predicted = Num(101) => fn.inline = "up"
            /\ fn.predicted = Num(99) => fn.inline = "down"

\* C15 witness: 100.3 against 100 with threshold 0.005 is neutral both ways.
C15_Witness ==
  /\ fn.name = "direction"
  /\ fn.current = Num(100)
  /\ fn.threshold = Q(5, 1000)
  /\ fn.predicted = Q(1003, 10)
  /\ fn.inline = "neutral"
  /\ fn.util = "neutral"

\* C16: calculateConfidence is within [0, 100] for all inputs (a zero or
\* negative average of the two predictions included) and is 100 when the
\* two predictions are equal and on the same side of the current price.
C16_ConfidenceWithinRange ==
  fn.name = "calculateConfidence" =>
    /\ JLe(Num(0), fn.result) /\ JLe(fn.result, Num(100))
    /\ (/\ fn.lstmPred = fn.xgbPred
        /\ MathSign(JSub(fn.lstmPred, fn.currentPrice))
             = MathSign(JSub(fn.xgbPred, fn.currentPrice)))
         => fn.result = Num(100)

\* the weighted sum of the bias-corrected predictions under a configuration
WeightedSum(l, x, config) ==
  JAdd(JMul(config.lstm_weight, JAdd(l, config.lstm_bias_correction)),
       JMul(config.xgboost_weight, JAdd(x, config.xgboost_bias_correction)))
DefaultEnsembleConfig == EnsembleConfig(Q(6, 10), Q(4, 10), Q(5, 1000), Num(0), Num(0))

\* C20 (as stated): the final prediction is the weighted sum of the
\* bias-corrected predictions under the loaded ensemble configuration, and
\* under weights 0.6 / 0.4, threshold 0.005 and biases 0 when none is loaded.
C20_CombinedByLoadedOrDefaultConfig ==
  fn.name = "ensemble" =>
    /\ fn.loaded = Null => fn.ensembleConfig = DefaultEnsembleConfig
    /\ fn.finalPrediction =
         WeightedSum(fn.lstmPrediction, fn.xgboostPrediction,
                     IF fn.loaded # Null THEN fn.loaded ELSE DefaultEnsembleConfig)

\* C20 (amended): unless the caller passes useEnsemble = false, the final
\* prediction is the weighted sum under the loaded configuration; when none
\* is loaded the weights are lstmWeight and 1 - lstmWeight if the caller
\* passes a non-zero lstmWeight and 0.6 / 0.4 otherwise, with threshold
\* 0.005 and biases 0.  With useEnsemble = false the final prediction is the
\* sequence model's prediction.
C20_CombinedUnlessOptionsOverride ==
  fn.name = "ensemble" =>
    LET given == fn.lstmWeight # NoWeight /\ fn.lstmWeight # Num(0)
    IN /\ fn.loaded # Null => fn.ensembleConfig = fn.loaded
       /\ (fn.loaded = Null /\ ~given) => fn.ensembleConfig = DefaultEnsembleConfig
       /\ (fn.loaded = Null /\ given) =>
            fn.ensembleConfig =
              EnsembleConfig(fn.lstmWeight, JSub(Num(1), fn.lstmWeight),
                             Q(5, 1000), Num(0), Num(0))
       /\ fn.useEnsemble # "false" =>
            fn.finalPrediction =
              WeightedSum(fn.lstmPrediction, fn.xgboostPrediction, fn.ensembleConfig)
       /\ fn.useEnsemble = "false" => fn.finalPrediction = fn.lstmPrediction

\* C20 witness: no configuration loaded, no options: 0.6 * 101 + 0.4 * 99.
C20_Witness ==
  /\ fn.name = "ensemble"
  /\ fn.loaded = Null /\ fn.useEnsemble = "undefined" /\ fn.lstmWeight = NoWeight
  /\ fn.lstmPrediction = Num(101) /\ fn.xgboostPrediction = Num(99)
  /\ fn.finalPrediction = Q(1002, 10)

(***************************************************************************)
(* Claims about the target date                                            *)
(***************************************************************************)
\* C17: getNextTradingDay returns a date strictly after today's calendar
\* day that falls on Monday..Friday (Friday + 3, Saturday + 2, otherwise
\* + 1), with no Monday..Friday day between today and it, at 16:00:00.000.
C17_NextWeekdayAtMarketClose ==
  fn.name = "getNextTradingDay" =>
    LET today == Ordinal(fn.now)
        target == Ordinal(fn.result)
        day == getDay(fn.now)
    IN /\ target > today
       /\ getDay(fn.result) \in 1..5
       /\ target - today = (IF day = 5 THEN 3 ELSE IF day = 6 THEN 2 ELSE 1)
       /\ \A o \in (today + 1)..(target - 1) : WeekdayOf(o, fn.now.jan1) \notin 1..5
       /\ fn.result.time = MarketClose
       /\ fn.result.date \in 1..DaysIn(fn.result.month)

\* C17 witness: Saturday 30 December, late evening; the target is Monday
\* 1 January of the next year.
C17_Witness ==
  /\ fn.name = "getNextTradingDay"
  /\ getDay(fn.now) = 6
  /\ fn.now.month = 12 /\ fn.now.date = 30 /\ fn.now.time = 86399999
  /\ fn.result.year = 1 /\ fn.result.month = 1 /\ fn.result.date = 1
  /\ fn.result.time = MarketClose

(***************************************************************************)
(* Claims about the feature rows                                           *)
(***************************************************************************)
\* C18: feature row i depends only on bars 0..i: two series that agree on
\* the bars before position k have the same feature rows before k.
C18_NoLookAhead ==
  fn.name = "prepareFeatures" =>
    /\ fn.rows = fn.len
    /\ \A p \in fn.differs : p >= fn.first

\* C18 witness: the close of bar 40 of 52 is changed; rows 40..52 change
\* (windows of 20 and 50 bars are in use) and no earlier row does.
C18_Witness ==
  /\ fn.name = "prepareFeatures"
  /\ fn.len = 52 /\ fn.first = 40 /\ fn.change = "close"
  /\ fn.differs = 40..52

(***************************************************************************)
(* Claims about the windows handed to the two estimates                    *)
(***************************************************************************)
\* C21: the flattened sample handed to the tabular estimate is made of the
\* last Lookback rows of the scaled matrix: it has Lookback rows, they are
\* consecutive, and its last row is the row of the most recent bar, which
\* is also the last row of the final sequence window.
C21_TabularSampleEndsAtLatestBar ==
  \A c \in Callers :
    (pred[c].done /\ pred[c].result.kind = "prediction") =>
      LET t == pred[c].result.tabular
      IN /\ Len(t) = Lookback
         /\ \A i \in 1..(Len(t) - 1) : t[i + 1] = t[i] + 1
         /\ pred[c].result.sequenceEnd = pred[c].bars
         /\ t[Len(t)] = pred[c].result.sequenceEnd

(***************************************************************************)
(* Claims about the store                                                  *)
(***************************************************************************)
WatchedSymbols(w) == {w[i].symbol : i \in DOMAIN w}
UpperCase(s) == toUpperCase(s) = s
Watched(w, symbol) == \E i \in DOMAIN w : toUpperCase(w[i].symbol) = toUpperCase(symbol)

\* C28: whatever addToWatchlist and removeFromWatchlist calls were made, no two
\* items of the watchlist have the same symbol and every stored symbol is
\* upper-case; addToWatchlist of a symbol that is already there, in whatever
\* letter case it is given, leaves the watchlist as it was; and after
\* removeFromWatchlist(s), isInWatchlist(s) is false.
C28_WatchlistUniqueUpperCase ==
  /\ \A i, j \in DOMAIN store.watchlist :
       store.watchlist[i].symbol = store.watchlist[j].symbol => i = j
  /\ \A i \in DOMAIN store.watchlist : UpperCase(store.watchlist[i].symbol)
  /\ (store.last.name = "addToWatchlist" /\ Watched(store.last.watchlist, store.last.symbol))
       => store.watchlist = store.last.watchlist
  /\ store.last.name = "removeFromWatchlist"
       => ~isInWatchlist(store.watchlist, store.last.symbol)

\* "aapl" is added while AAPL and MSFT are on the list
C28_Witness ==
  /\ store.last.name = "addToWatchlist"
  /\ store.last.symbol = "aapl"
  /\ WatchedSymbols(store.last.watchlist) = {"AAPL", "MSFT"}

\* C29: whatever addRecentSearch and clearRecentSearches calls were made,
\* recentSearches has at most 10 entries and no symbol twice; after
\* addRecentSearch(s) its first entry is s upper-cased and the entries after
\* it are entries of the previous list, in the order they had there.
Position(list, s) == CHOOSE i \in DOMAIN list : list[i] = s
C29_RecentSearchesBoundedOrdered ==
  LET recent == store.recentSearches
      before == store.last.recentSearches
  IN /\ Len(recent) <= 10
     /\ \A i, j \in DOMAIN recent : recent[i] = recent[j] => i = j
     /\ store.last.name = "addRecentSearch" =>
          /\ Len(recent) >= 1
          /\ recent[1] = toUpperCase(store.last.symbol)
          /\ \A i \in 2..Len(recent) : \E k \in DOMAIN before : before[k] = recent[i]
          /\ \A i, j \in 2..Len(recent) :
               i < j => Position(before, recent[i]) < Position(before, recent[j])

\* a symbol that is not on a full list is searched for: the oldest entry goes
C29_Witness ==
  /\ store.last.name = "addRecentSearch"
  /\ Len(store.last.recentSearches) = 10
  /\ \A k \in DOMAIN store.last.recentSearches :
       store.last.recentSearches[k] # toUpperCase(store.last.symbol)
  /\ Len(store.recentSearches) = 10

(***************************************************************************)
(* Claims about the technical-analysis prediction                          *)
(***************************************************************************)
\* C30: for every history of at least 100 bars and its indicators, the
\* direction in the response agrees with the prices in the response: it is
\* up only when predictedPrice > currentPrice, down only when
\* predictedPrice < currentPrice, and neutral exactly when bullishScore equals
\* bearishScore, and then predictedPrice equals currentPrice and confidence
\* is 0.
C30_DirectionAgreesWithPriceChange ==
  (fn.name = "generateTechnicalPrediction" /\ fn.len >= 100) =>
    LET r == fn.result IN
    /\ r.direction = "up" => JGt(r.predictedPrice, r.currentPrice)
    /\ r.direction = "down" => JLt(r.predictedPrice, r.currentPrice)
    /\ r.direction = "neutral" <=> r.scores.bullish = r.scores.bearish
    /\ r.direction = "neutral" =>
         r.predictedPrice = r.currentPrice /\ r.confidence = Num(0)

====
